---- MODULE Spec2Model ----
(***************************************************************************)
(* Verification model of the tunnel supervisor of the VPN daemon           *)
(* (talpid-core/src/tunnel/openvpn.rs): OpenVpnMonitor::new_internal,      *)
(* wait, wait_tunnel, inner_wait_tunnel, OpenVpnCloseHandle::close, the    *)
(* event server and the on_openvpn_event handler.                          *)
(*                                                                         *)
(* Every thread and task of one tunnel session is a process with its own   *)
(* program counter; channels are kept as the sequence of everything that   *)
(* was ever sent plus the number of messages already received.             *)
(***************************************************************************)
EXTENDS Integers, Sequences, FiniteSets, TLC

\* ------------------------------------------------------------------------
\* Bounds of the model
\* ------------------------------------------------------------------------

\* Number of close() calls the user makes through cloned close handles.
MaxUserCloses == 1

\* Number of event RPCs the tunnel plugin sends in one session.
MaxEvents == 2

\* Number of RouteManager API calls made after new.
MaxCalls == 3

\* Number of service controls the OS delivers during one run_service.
MaxControls == 3

\* The number of events registered with the hibernation detector.
MaxHibEvents == 5

\* The number of values the control channel of the version updater holds.
MaxQueued == 1

\* ------------------------------------------------------------------------
\* State
\* ------------------------------------------------------------------------

VARIABLES
    params,          \* [proxy, proxyAuth]: is a proxy monitor / proxy auth file present
    pc,              \* position of the thread that calls new_internal and wait
    newResult,       \* what new_internal returned
    server,          \* state of the event_server::start task
    readySent,       \* number of messages sent on start_tx
    abortTriggered,  \* event_server_abort_tx has fired
    child,           \* the OpenVPN child process
    killCount,       \* number of child.kill() invocations
    closed,          \* the shared AtomicBool
    closeCalls,      \* close() calls made so far, per caller
    userPassFile,    \* the user-pass credentials file exists on disk
    proxyAuthFile,   \* the proxy-auth credentials file exists on disk
    tempFilesDropped,\* the TempFile values have been dropped
    cw,              \* child watcher thread of inner_wait_tunnel
    cwLocal,         \* its locals (result, closed)
    iw,              \* IPC watcher task of inner_wait_tunnel
    rx,              \* everything sent on the inner_wait_tunnel channel
    rxRead,          \* number of messages inner_wait_tunnel has received
    wt,              \* position inside wait_tunnel
    innerResult,     \* value returned by inner_wait_tunnel
    tunnelResult,    \* value returned by wait_tunnel
    pmInput,         \* platform and log contents seen by postmortem
    tt,              \* tunnel thread of wait (proxy case)
    pt,              \* proxy thread of wait (proxy case)
    rxw,             \* everything sent on the channel of wait
    rxwRead,         \* number of messages wait has received
    waitResult,      \* value returned by wait
    proxyCloseCalls, \* number of proxy_close_handle.close() calls
    rpcIn,           \* event RPCs that arrived and are not yet handled
    hpc,             \* position inside OpenvpnEventProxyImpl::event
    req,             \* the request being handled
    sinkArg,         \* the arguments of the sink call being made
    arrived,         \* the code of every request the handler has taken, in order
    sinkLog,         \* the kind of every invocation of the sink, in order
    replies,         \* the status of every RPC reply, in order
    forwarded,       \* the kind of every event handed on towards the daemon callback
    unlinkAttempts,  \* number of fs::remove_file calls on the user-pass file
    manager,         \* the RouteManager value: absent, live, failed (new), dropped
    manage_tx,       \* RouteManager::manage_tx is Some
    queue,           \* commands sent on manage_tx the actor has not taken yet
    actor,           \* the task running RouteManagerImpl::run
    applied,         \* the set of applied routes
    exclusions,      \* the exclusions routes are enabled
    apiPc,           \* position of the thread calling the RouteManager API
    call,            \* the API call in progress
    reply,           \* the oneshot reply channel of the call in progress
    sendLog,         \* every unbounded_send made, in order, with its outcome
    processed,       \* every command the actor has taken, in order
    returned,        \* every API call that returned, in order, with its result
    svcPc,           \* position of the service main thread in run_service
    monPc,           \* position of the event monitor thread
    event_rx,        \* controls forwarded by the handler, not yet received
    reports,         \* every status handed to set_service_status, in order
    checkpoint_counter, \* the shared AtomicUsize of PersistentServiceStatus
    monCheckpoint,   \* the checkpoint the monitor took in report_status
    clean_shutdown,  \* the shared AtomicBool
    cleanRead,       \* the value run_service loaded from clean_shutdown
    shutdownCalled,  \* shutdown_handle.shutdown() has been invoked
    daemonResult,    \* `result` of run_service
    loopCause,       \* why the main loop returned
    exit_code,       \* `exit_code` of run_service
    handlerLog,      \* every control the OS delivered, with the handler's result
    handled,         \* the controls the event monitor took from event_rx
    now,             \* the monotonic clock at its last reading by the detector, in seconds
    logoff_time,     \* HibernationDetector::logoff_time: <<>> is None, <<t>> is Some(t)
    should_restart,  \* HibernationDetector::should_restart
    restarts,        \* number of restart_daemon invocations
    helpers,         \* number of restart helper processes started
    hibLog,          \* the events registered with the detector, with their times
    \* --- app versions (mullvad-daemon/src/version_check.rs) ---
    fnIn,            \* the function that is called and its arguments
    fnOut,           \* what the call returned
    \* --- version updater (mullvad-daemon/src/version_check.rs) ---
    build,           \* PRODUCT_VERSION and is_beta_version() of the build
    updPc,           \* where VersionUpdater::run is: start, drain, loop, returned
    control_rx,      \* the values queued in the control channel
    tx_open,         \* some VersionUpdaterHandle is alive
    update_sender_closed,   \* update_sender.is_closed()
    show_beta_releases,     \* VersionUpdater::show_beta_releases
    check_delay,     \* the timer: <<>> once it fired, <<t>> fires in t seconds
    next_update_time,       \* VersionUpdater::next_update_time, in seconds from now
    version_check,   \* the download future
    last_app_version_info,  \* VersionUpdater::last_app_version_info
    published,       \* the infos sent on update_sender
    cache_file,      \* the content of version-info.json
    launched,        \* a download has been started
    sinceCompletion  \* seconds since the last download completed

mainVars  == <<params, pc, newResult>>
srvVars   == <<server, readySent, abortTriggered>>
procVars  == <<child, killCount, closed, closeCalls>>
fileVars  == <<userPassFile, proxyAuthFile, tempFilesDropped>>
innerVars == <<cw, cwLocal, iw, rx, rxRead, wt, innerResult, tunnelResult, pmInput>>
outerVars == <<tt, pt, rxw, rxwRead, waitResult, proxyCloseCalls>>
evVars    == <<rpcIn, hpc, req, sinkArg, arrived, sinkLog, replies, forwarded, unlinkAttempts>>

tunnelVars == <<mainVars, srvVars, procVars, fileVars, innerVars, outerVars, evVars>>

routeVars == <<manager, manage_tx, queue, actor, applied, exclusions, apiPc, call,
               reply, sendLog, processed, returned>>

hibVars == <<now, logoff_time, should_restart, restarts, helpers, hibLog>>

svcVars == <<svcPc, monPc, event_rx, reports, checkpoint_counter, monCheckpoint,
             clean_shutdown, cleanRead, shutdownCalled, daemonResult, loopCause,
             exit_code, handlerLog, handled, hibVars>>

versionFnVars == <<fnIn, fnOut>>

updVars == <<build, updPc, control_rx, tx_open, update_sender_closed, show_beta_releases,
             check_delay, next_update_time, version_check, last_app_version_info,
             published, cache_file, launched, sinceCompletion>>

\* What the steps of the tunnel supervisor leave alone.
nonTunnelVars == <<routeVars, svcVars, versionFnVars, updVars>>

\* What the steps of the route manager leave alone.
nonRouteVars == <<tunnelVars, svcVars, versionFnVars, updVars>>

\* What the steps of the service leave alone.
nonSvcVars == <<tunnelVars, routeVars, versionFnVars, updVars>>

\* What the calls of the version functions leave alone.
nonVersionFnVars == <<tunnelVars, routeVars, svcVars, updVars>>

\* What the steps of the version updater leave alone.
nonUpdVars == <<tunnelVars, routeVars, svcVars, versionFnVars>>

vars == <<tunnelVars, routeVars, svcVars, versionFnVars, updVars>>

\* ------------------------------------------------------------------------
\* Values
\* ------------------------------------------------------------------------

None == "none"

\* No WaitResult is held.
NoMessage == [tag |-> "none"]

\* postmortem has not been called.
NoPostmortem == [windows |-> FALSE, log |-> "not_read"]

\* Who may call OpenVpnCloseHandle::close in one session.
Callers == {"user", "ipc", "proxy"}

\* The parameter combinations OpenVpnMonitor::start can hand to new_internal:
\* a proxy-auth file exists only when a proxy is configured.
ParamSets ==
    { p \in [proxy : BOOLEAN, proxyAuth : BOOLEAN] : p.proxyAuth => p.proxy }

\* States of the event server task in which its future has completed.
ServerDone == {"err_start", "done_ok", "err_tonic", "cancelled"}

\* ------------------------------------------------------------------------
\* Initial state: start() has created the credentials files and calls
\* new_internal.
\* ------------------------------------------------------------------------

TunnelInit ==
    /\ params \in ParamSets
    /\ pc = "build_runtime"
    /\ newResult = None
    /\ server = "unspawned"
    /\ readySent = 0
    /\ abortTriggered = FALSE
    /\ child = None
    /\ killCount = 0
    /\ closed = FALSE
    /\ closeCalls = [c \in Callers |-> 0]
    /\ userPassFile = TRUE
    /\ proxyAuthFile = params.proxyAuth
    /\ tempFilesDropped = FALSE
    /\ cw = "idle"
    /\ cwLocal = NoMessage
    /\ iw = "idle"
    /\ rx = <<>>
    /\ rxRead = 0
    /\ wt = "idle"
    /\ innerResult = NoMessage
    /\ tunnelResult = None
    /\ pmInput = NoPostmortem
    /\ tt = "idle"
    /\ pt = "idle"
    /\ rxw = <<>>
    /\ rxwRead = 0
    /\ waitResult = None
    /\ proxyCloseCalls = 0
    /\ rpcIn = <<>>
    /\ hpc = "idle"
    /\ req = None
    /\ sinkArg = None
    /\ arrived = <<>>
    /\ sinkLog = <<>>
    /\ replies = <<>>
    /\ forwarded = <<>>
    /\ unlinkAttempts = 0

\* ------------------------------------------------------------------------
\* Scoped resources
\* ------------------------------------------------------------------------

\* Variant of RuntimeDrop: the runtime is leaked, its tasks keep running.
RuntimeDrop_Leak(s) == s

\* Dropping a tokio Runtime stops the tasks spawned on it: a server task that
\* has not completed is cancelled, a completed one keeps its result.
RuntimeDrop(s) == IF s \in ServerDone \/ s = "unspawned" THEN s ELSE "cancelled"

\* Dropping the TempFile values removes the files from disk.
TempFileDrop ==
    /\ userPassFile' = FALSE
    /\ proxyAuthFile' = FALSE
    /\ tempFilesDropped' = TRUE

\* ------------------------------------------------------------------------
\* new_internal
\* ------------------------------------------------------------------------

\* Building the runtime fails: RuntimeError, every argument is dropped.
NewRuntimeFails ==
    /\ pc = "build_runtime"
    /\ pc' = "failed"
    /\ newResult' = "RuntimeError"
    /\ TempFileDrop
    /\ UNCHANGED <<params, srvVars, procVars, innerVars, outerVars, evVars>>
    /\ UNCHANGED nonTunnelVars

\* The runtime is built and event_server::start is spawned on it.
NewSpawnServer ==
    /\ pc = "build_runtime"
    /\ pc' = "recv_ready"
    /\ server' = "binding"
    /\ UNCHANGED <<params, newResult, readySent, abortTriggered, procVars,
                   fileVars, innerVars, outerVars, evVars>>
    /\ UNCHANGED nonTunnelVars

\* endpoint.incoming(): the bind succeeds or fails with StartServer.
BindResult(ok) == IF ok THEN "bound" ELSE "err_start"

ServerBind ==
    /\ server = "binding"
    /\ \E ok \in BOOLEAN : server' = BindResult(ok)
    /\ UNCHANGED <<mainVars, readySent, abortTriggered, procVars, fileVars,
                   innerVars, outerVars, evVars>>
    /\ UNCHANGED nonTunnelVars

\* server_start_tx.send(()) after the bind.
ServerPostReady ==
    /\ server = "bound"
    /\ readySent' = readySent + 1
    /\ server' = "serving"
    /\ UNCHANGED <<mainVars, abortTriggered, procVars, fileVars,
                   innerVars, outerVars, evVars>>
    /\ UNCHANGED nonTunnelVars

\* Variant of StartRxRecv: new_internal does not wait for the ready signal.
StartRxRecv_NoWait(sent, srv) == "ok"

\* start_rx.recv(): Ok when a message is there, Err when the sender is gone
\* without having sent, blocked otherwise.
StartRxRecv(sent, srv) ==
    IF sent > 0 THEN "ok"
    ELSE IF srv \in ServerDone THEN "err"
    ELSE "block"

\* The ready signal arrived: go on to spawn the child.
NewRecvReady ==
    /\ pc = "recv_ready"
    /\ StartRxRecv(readySent, server) = "ok"
    /\ pc' = "spawn_child"
    /\ UNCHANGED <<params, newResult, srvVars, procVars, fileVars,
                   innerVars, outerVars, evVars>>
    /\ UNCHANGED nonTunnelVars

\* The server task ended before ready: EventDispatcherError.
NewRecvReadyFails ==
    /\ pc = "recv_ready"
    /\ StartRxRecv(readySent, server) = "err"
    /\ pc' = "failed"
    /\ newResult' = "EventDispatcherError"
    /\ server' = RuntimeDrop(server)
    /\ TempFileDrop
    /\ UNCHANGED <<params, readySent, abortTriggered, procVars,
                   innerVars, outerVars, evVars>>
    /\ UNCHANGED nonTunnelVars

\* cmd.start() succeeds: the monitor is constructed.
NewSpawnChild ==
    /\ pc = "spawn_child"
    /\ pc' = "monitor"
    /\ newResult' = "Ok"
    /\ child' = "running"
    /\ UNCHANGED <<params, srvVars, killCount, closed, closeCalls, fileVars,
                   innerVars, outerVars, evVars>>
    /\ UNCHANGED nonTunnelVars

\* cmd.start() fails: ChildProcessError("Failed to start"), the runtime and
\* the credentials files go out of scope.
NewSpawnChildFails ==
    /\ pc = "spawn_child"
    /\ pc' = "failed"
    /\ newResult' = "ChildProcessError_FailedToStart"
    /\ server' = RuntimeDrop(server)
    /\ TempFileDrop
    /\ UNCHANGED <<params, readySent, abortTriggered, procVars,
                   innerVars, outerVars, evVars>>
    /\ UNCHANGED nonTunnelVars

\* ------------------------------------------------------------------------
\* The child process and OpenVpnCloseHandle::close
\* ------------------------------------------------------------------------

ExitStatuses == {"success", "failure"}

\* The child exits, on its own or because it was killed.
ChildExit ==
    /\ child = "running"
    /\ \E st \in ExitStatuses : child' = st
    /\ UNCHANGED <<mainVars, srvVars, killCount, closed, closeCalls, fileVars,
                   innerVars, outerVars, evVars>>
    /\ UNCHANGED nonTunnelVars

\* Variant of CloseMustKill: no caller kills.
CloseMustKill_Never(previous) == FALSE

\* Variant of CloseMustKill: every caller kills, whatever swap returned.
CloseMustKill_Always(previous) == TRUE

\* self.closed.swap(true): does this caller have to kill the child?
\* The argument is the value swap returns (the previous value of the flag).
CloseMustKill(previous) == ~previous

\* Variant of Close: the child is killed and the flag is left alone.
Close_FlagUntouched(caller) ==
    /\ closed' = closed
    /\ killCount' = killCount + 1
    /\ closeCalls' = [closeCalls EXCEPT ![caller] = @ + 1]

\* OpenVpnCloseHandle::close made by `caller`.
Close(caller) ==
    /\ closed' = TRUE
    /\ killCount' = IF CloseMustKill(closed) THEN killCount + 1 ELSE killCount
    /\ closeCalls' = [closeCalls EXCEPT ![caller] = @ + 1]

\* The user closes the tunnel through a clone of the close handle.
UserClose ==
    /\ child # None
    /\ closeCalls["user"] < MaxUserCloses
    /\ Close("user")
    /\ UNCHANGED <<mainVars, srvVars, child, fileVars, innerVars, outerVars, evVars>>
    /\ UNCHANGED nonTunnelVars

\* ------------------------------------------------------------------------
\* The event server task, after it posted ready
\* ------------------------------------------------------------------------

\* The tunnel plugin lives inside the child process: once the child has
\* exited, the peer of the event server is disconnected.
PeerDisconnected == child \in ExitStatuses

\* Variant of ServeReturnsOk: the server also returns when its peer is gone.
ServeReturnsOk_OnDisconnect(aborted, peerGone) == aborted \/ peerGone

\* When does serve_with_incoming_shutdown(incoming, abort_rx) return Ok?
\* The only shutdown signal handed to it is abort_rx; the listener keeps
\* accepting connections after a peer has gone away.
ServeReturnsOk(aborted, peerGone) == aborted

\* serve_with_incoming_shutdown returns Ok once the abort trigger has fired;
\* a request being handled is completed first, requests not yet taken are
\* lost with the endpoint.
ServerAbort ==
    /\ server = "serving"
    /\ ServeReturnsOk(abortTriggered, PeerDisconnected)
    /\ hpc = "idle"
    /\ server' = "done_ok"
    /\ rpcIn' = <<>>
    /\ UNCHANGED <<mainVars, readySent, abortTriggered, procVars, fileVars,
                   innerVars, outerVars, hpc, req, sinkArg, arrived, sinkLog,
                   replies, forwarded, unlinkAttempts>>
    /\ UNCHANGED nonTunnelVars

\* serve_with_incoming_shutdown returns a transport error (TonicError).
ServerTransportError ==
    /\ server = "serving"
    /\ hpc = "idle"
    /\ server' = "err_tonic"
    /\ rpcIn' = <<>>
    /\ UNCHANGED <<mainVars, readySent, abortTriggered, procVars, fileVars,
                   innerVars, outerVars, hpc, req, sinkArg, arrived, sinkLog,
                   replies, forwarded, unlinkAttempts>>
    /\ UNCHANGED nonTunnelVars

\* ------------------------------------------------------------------------
\* inner_wait_tunnel and wait_tunnel
\* ------------------------------------------------------------------------

\* Entering wait_tunnel: inner_wait_tunnel spawns both watchers.
EnterWaitTunnel ==
    /\ wt' = "recv"
    /\ cw' = "wait"
    /\ iw' = "await"

\* Variant of ChildWatcherWait: the abort trigger is fired as soon as
\* child.wait() returns, before the result is sent.
ChildWatcherWait_TriggerFirst ==
    /\ cw = "wait"
    /\ child \in ExitStatuses
    /\ cw' = "send"
    /\ cwLocal' = [tag |-> "Child", res |-> child, closed |-> closed]
    /\ abortTriggered' = TRUE
    /\ UNCHANGED <<mainVars, server, readySent, procVars, fileVars, iw, rx, rxRead, wt,
                   innerResult, tunnelResult, pmInput, outerVars, evVars>>
    /\ UNCHANGED nonTunnelVars

\* Child watcher: child.wait() returns the exit status, then the closed flag
\* is loaded.
ChildWatcherWait ==
    /\ cw = "wait"
    /\ child \in ExitStatuses
    /\ cw' = "send"
    /\ cwLocal' = [tag |-> "Child", res |-> child, closed |-> closed]
    /\ UNCHANGED <<mainVars, srvVars, procVars, fileVars, iw, rx, rxRead, wt,
                   innerResult, tunnelResult, pmInput, outerVars, evVars>>
    /\ UNCHANGED nonTunnelVars

\* Child watcher: child.wait() fails with an io::Error.
ChildWatcherWaitErr ==
    /\ cw = "wait"
    /\ child # None
    /\ cw' = "send"
    /\ cwLocal' = [tag |-> "Child", res |-> "io_error", closed |-> closed]
    /\ UNCHANGED <<mainVars, srvVars, procVars, fileVars, iw, rx, rxRead, wt,
                   innerResult, tunnelResult, pmInput, outerVars, evVars>>
    /\ UNCHANGED nonTunnelVars

\* Child watcher: child_tx.send(WaitResult::Child(result, closed)).
ChildWatcherSend ==
    /\ cw = "send"
    /\ cw' = "trigger"
    /\ rx' = Append(rx, cwLocal)
    /\ cwLocal' = NoMessage
    /\ UNCHANGED <<mainVars, srvVars, procVars, fileVars, iw, rxRead, wt,
                   innerResult, tunnelResult, pmInput, outerVars, evVars>>
    /\ UNCHANGED nonTunnelVars

\* Child watcher: event_server_abort_tx.trigger().
ChildWatcherTrigger ==
    /\ cw = "trigger"
    /\ abortTriggered' = TRUE
    /\ cw' = "done"
    /\ UNCHANGED <<mainVars, server, readySent, procVars, fileVars, cwLocal, iw, rx,
                   rxRead, wt, innerResult, tunnelResult, pmInput, outerVars, evVars>>
    /\ UNCHANGED nonTunnelVars

\* IPC watcher: the server join handle resolved, send EventDispatcher.
IpcWatcherSend ==
    /\ iw = "await"
    /\ server \in ServerDone
    /\ rx' = Append(rx, [tag |-> "EventDispatcher"])
    /\ iw' = "close"
    /\ UNCHANGED <<mainVars, srvVars, procVars, fileVars, cw, cwLocal, rxRead, wt,
                   innerResult, tunnelResult, pmInput, outerVars, evVars>>
    /\ UNCHANGED nonTunnelVars

\* IPC watcher: child_close_handle.close().
IpcWatcherClose ==
    /\ iw = "close"
    /\ Close("ipc")
    /\ iw' = "done"
    /\ UNCHANGED <<mainVars, srvVars, child, fileVars, cw, cwLocal, rx, rxRead, wt,
                   innerResult, tunnelResult, pmInput, outerVars, evVars>>
    /\ UNCHANGED nonTunnelVars

\* Variant of InnerWaitReturns: return right after the first rx.recv().
InnerWaitReturns_AfterFirst(received) == received >= 1

\* inner_wait_tunnel returns after this many rx.recv() calls.
InnerWaitReturns(received) == received = 2

\* The value inner_wait_tunnel returns, given the messages in channel order.
InnerWaitPick(q) == q[1]

\* What postmortem can see: the platform and the contents of the log file
\* (on Windows: no readable log, or which of the TAP patterns it contains).
PostmortemInputs ==
    { [windows |-> FALSE, log |-> "no_pattern"],
      [windows |-> TRUE,  log |-> "unreadable"],
      [windows |-> TRUE,  log |-> "no_pattern"],
      [windows |-> TRUE,  log |-> "missing_tap"],
      [windows |-> TRUE,  log |-> "disabled_tap"],
      [windows |-> TRUE,  log |-> "both_patterns"] }

Postmortem(pm) ==
    IF pm.windows /\ pm.log \in {"missing_tap", "both_patterns"} THEN "MissingTapAdapter"
    ELSE IF pm.windows /\ pm.log = "disabled_tap" THEN "DisabledTapAdapter"
    ELSE "ChildProcessDied"

\* Variant of ExitedAsExpected: the closed flag is not consulted.
ExitedAsExpected_IgnoreClosed(status, wasClosed) == status = "success"

\* exit_status.success() || closed
ExitedAsExpected(status, wasClosed) == status = "success" \/ wasClosed

\* Does the match of wait_tunnel reach `Err(self.postmortem())`?
CallsPostmortem(r) ==
    r.tag = "Child" /\ r.res \in ExitStatuses /\ ~ExitedAsExpected(r.res, r.closed)

\* The match of wait_tunnel.
WaitTunnelMap(r, pm) ==
    IF r.tag = "Child"
    THEN IF r.res \in ExitStatuses
         THEN IF ExitedAsExpected(r.res, r.closed) THEN "Ok" ELSE Postmortem(pm)
         ELSE "ChildProcessError_ErrorWhenWaiting"
    ELSE "EventDispatcherExited"

\* rx.recv() in inner_wait_tunnel; after the last one inner_wait_tunnel
\* returns and wait_tunnel maps its result. postmortem, when it is called,
\* reads the platform's log.
InnerRecv ==
    /\ wt = "recv"
    /\ rxRead < Len(rx)
    /\ rxRead' = rxRead + 1
    /\ IF InnerWaitReturns(rxRead + 1)
       THEN LET r == InnerWaitPick(rx)
            IN  /\ innerResult' = r
                /\ wt' = "done"
                /\ IF CallsPostmortem(r)
                   THEN \E pm \in PostmortemInputs :
                           /\ pmInput' = pm
                           /\ tunnelResult' = WaitTunnelMap(r, pm)
                   ELSE /\ pmInput' = pmInput
                        /\ tunnelResult' = WaitTunnelMap(r, None)
       ELSE UNCHANGED <<wt, innerResult, tunnelResult, pmInput>>
    /\ UNCHANGED <<mainVars, srvVars, procVars, fileVars, cw, cwLocal, iw, rx,
                   outerVars, evVars>>
    /\ UNCHANGED nonTunnelVars

\* ------------------------------------------------------------------------
\* wait
\* ------------------------------------------------------------------------

\* wait() without a proxy: call wait_tunnel on the calling thread.
WaitNoProxy ==
    /\ pc = "monitor"
    /\ ~params.proxy
    /\ pc' = "wait_tunnel"
    /\ EnterWaitTunnel
    /\ UNCHANGED <<params, newResult, srvVars, procVars, fileVars, cwLocal, rx, rxRead,
                   innerResult, tunnelResult, pmInput, outerVars, evVars>>
    /\ UNCHANGED nonTunnelVars

\* wait() without a proxy: wait_tunnel returned, its result is the result.
WaitNoProxyResult ==
    /\ pc = "wait_tunnel"
    /\ wt = "done"
    /\ waitResult' = tunnelResult
    /\ pc' = "drop_self"
    /\ UNCHANGED <<params, newResult, srvVars, procVars, fileVars, innerVars,
                   tt, pt, rxw, rxwRead, proxyCloseCalls, evVars>>
    /\ UNCHANGED nonTunnelVars

\* wait() without a proxy: self goes out of scope, then wait returns.
WaitNoProxyDropSelf ==
    /\ pc = "drop_self"
    /\ TempFileDrop
    /\ server' = RuntimeDrop(server)
    /\ pc' = "returned"
    /\ UNCHANGED <<params, newResult, readySent, abortTriggered, procVars,
                   innerVars, outerVars, evVars>>
    /\ UNCHANGED nonTunnelVars

\* wait() with a proxy: spawn the tunnel thread, which calls wait_tunnel, and
\* the proxy thread, which calls proxy_monitor.wait().
WaitWithProxy ==
    /\ pc = "monitor"
    /\ params.proxy
    /\ pc' = "recv"
    /\ tt' = "wait_tunnel"
    /\ pt' = "wait"
    /\ EnterWaitTunnel
    /\ UNCHANGED <<params, newResult, srvVars, procVars, fileVars, cwLocal, rx, rxRead,
                   innerResult, tunnelResult, pmInput, rxw, rxwRead, waitResult,
                   proxyCloseCalls, evVars>>
    /\ UNCHANGED nonTunnelVars

\* Tunnel thread: tx_tunnel.send(Stopped::Tunnel(result)).
TunnelThreadSend ==
    /\ tt = "wait_tunnel"
    /\ wt = "done"
    /\ rxw' = Append(rxw, [tag |-> "Tunnel", res |-> tunnelResult])
    /\ tt' = "close_proxy"
    /\ UNCHANGED <<mainVars, srvVars, procVars, fileVars, innerVars, pt, rxwRead,
                   waitResult, proxyCloseCalls, evVars>>
    /\ UNCHANGED nonTunnelVars

\* Tunnel thread: proxy_close_handle.close().
TunnelThreadCloseProxy ==
    /\ tt = "close_proxy"
    /\ proxyCloseCalls' = proxyCloseCalls + 1
    /\ tt' = "drop_self"
    /\ UNCHANGED <<mainVars, srvVars, procVars, fileVars, innerVars, pt, rxw, rxwRead,
                   waitResult, evVars>>
    /\ UNCHANGED nonTunnelVars

\* Tunnel thread: the closure ends and self, which it owns, is dropped.
TunnelThreadDropSelf ==
    /\ tt = "drop_self"
    /\ TempFileDrop
    /\ server' = RuntimeDrop(server)
    /\ tt' = "done"
    /\ UNCHANGED <<mainVars, readySent, abortTriggered, procVars, innerVars, pt, rxw,
                   rxwRead, waitResult, proxyCloseCalls, evVars>>
    /\ UNCHANGED nonTunnelVars

\* What proxy_monitor.wait() can return.
ProxyResults == {"ProperShutdown", "UnexpectedExit", "io_error"}

\* Proxy thread: proxy_monitor.wait() returned, tx_proxy.send(Stopped::Proxy(result)).
ProxyThreadSend ==
    /\ pt = "wait"
    /\ \E r \in ProxyResults : rxw' = Append(rxw, [tag |-> "Proxy", res |-> r])
    /\ pt' = "close_tunnel"
    /\ UNCHANGED <<mainVars, srvVars, procVars, fileVars, innerVars, tt, rxwRead,
                   waitResult, proxyCloseCalls, evVars>>
    /\ UNCHANGED nonTunnelVars

\* Proxy thread: tunnel_close_handle.close().
ProxyThreadCloseTunnel ==
    /\ pt = "close_tunnel"
    /\ Close("proxy")
    /\ pt' = "done"
    /\ UNCHANGED <<mainVars, srvVars, child, fileVars, innerVars, tt, rxw, rxwRead,
                   waitResult, proxyCloseCalls, evVars>>
    /\ UNCHANGED nonTunnelVars

\* Variant of ProxyResultMap: a proper proxy shutdown is not an error.
ProxyResultMap_ProperIsOk(r) ==
    IF r = "ProperShutdown" THEN "Ok"
    ELSE IF r = "UnexpectedExit" THEN "ProxyExited_Details"
    ELSE "MonitorProxyError"

\* The match on the proxy result in wait.
ProxyResultMap(r) ==
    IF r = "ProperShutdown" THEN "ProxyExited_NoDetails"
    ELSE IF r = "UnexpectedExit" THEN "ProxyExited_Details"
    ELSE "MonitorProxyError"

\* Variant of WaitMap: the tunnel's result is preferred when it is there.
WaitMap_PreferTunnel(q) ==
    IF \E i \in DOMAIN q : q[i].tag = "Tunnel"
    THEN (CHOOSE m \in { q[i] : i \in DOMAIN q } : m.tag = "Tunnel").res
    ELSE q[1].res

\* The match on `result` in wait: `result` is the first message received.
WaitMap(q) ==
    IF q[1].tag = "Tunnel" THEN q[1].res ELSE ProxyResultMap(q[1].res)

\* wait() with a proxy: the two rx.recv() calls, then the match.
WaitRecv ==
    /\ pc = "recv"
    /\ rxwRead < Len(rxw)
    /\ rxwRead' = rxwRead + 1
    /\ IF rxwRead + 1 = 2
       THEN pc' = "returned" /\ waitResult' = WaitMap(rxw)
       ELSE UNCHANGED <<pc, waitResult>>
    /\ UNCHANGED <<params, newResult, srvVars, procVars, fileVars, innerVars,
                   tt, pt, rxw, proxyCloseCalls, evVars>>
    /\ UNCHANGED nonTunnelVars

\* ------------------------------------------------------------------------
\* Event RPCs: OpenvpnEventProxyImpl::event and on_openvpn_event
\* ------------------------------------------------------------------------

\* Numeric event codes the plugin sends: Up, RouteUp and one code that is no
\* event type.
EventCodes == {0, 2, 99}

Envs == {"env_a", "env_b"}

\* openvpn_plugin::EventType::try_from
EventTypeTryFrom(code) ==
    CASE code = 0  -> "Up"
      [] code = 2  -> "RouteUp"
      [] code = 12 -> "RoutePredown"
      [] OTHER     -> None

\* The plugin in the child process sends an event RPC.
PluginSendEvent ==
    /\ child = "running"
    /\ server = "serving"
    /\ Len(arrived) + Len(rpcIn) < MaxEvents
    /\ \E code \in EventCodes, env \in Envs :
          rpcIn' = Append(rpcIn, [code |-> code, env |-> env])
    /\ UNCHANGED <<mainVars, srvVars, procVars, fileVars, innerVars, outerVars,
                   hpc, req, sinkArg, arrived, sinkLog, replies, forwarded,
                   unlinkAttempts>>
    /\ UNCHANGED nonTunnelVars

\* Which request the server hands to the handler next.
NextRequest(q) == Head(q)

\* Variant of CodeAccepted: the result of try_from is not checked.
CodeAccepted_Any(code) == TRUE

\* event(): does the handler go on to the sink for this code?
\* (try_from(..).ok_or(invalid_argument)?)
CodeAccepted(code) == EventTypeTryFrom(code) # None

\* event(): take the request and convert its code; an unknown code is
\* answered with InvalidArgument right away.
HandlerRecv ==
    /\ server = "serving"
    /\ hpc = "idle"
    /\ rpcIn # <<>>
    /\ LET r == NextRequest(rpcIn)
       IN  /\ rpcIn' = Tail(rpcIn)
           /\ arrived' = Append(arrived, r.code)
           /\ IF CodeAccepted(r.code)
              THEN /\ req' = r
                   /\ hpc' = "sink"
                   /\ UNCHANGED replies
              ELSE /\ replies' = Append(replies, "InvalidArgument")
                   /\ UNCHANGED <<hpc, req>>
    /\ UNCHANGED <<mainVars, srvVars, procVars, fileVars, innerVars, outerVars,
                   sinkArg, sinkLog, forwarded, unlinkAttempts>>
    /\ UNCHANGED nonTunnelVars

\* (self.on_event)(event_type, request.env): the arguments of the sink call.
SinkArgs(r) == [kind |-> EventTypeTryFrom(r.code), env |-> r.env]

\* Variant of UnlinksCredentials: every event kind unlinks the files.
UnlinksCredentials_Any(kind) == TRUE

\* on_openvpn_event: which event kinds make it unlink the credentials files.
UnlinksCredentials(kind) == kind = "RouteUp"

\* The sink is entered; on RouteUp it tries to remove both credentials files,
\* each removal may fail, and the failure is dropped (`let _ =`).
SinkUnlink ==
    /\ hpc = "sink"
    /\ sinkArg' = SinkArgs(req)
    /\ sinkLog' = Append(sinkLog, SinkArgs(req).kind)
    /\ IF UnlinksCredentials(SinkArgs(req).kind)
       THEN /\ unlinkAttempts' = unlinkAttempts + 1
            /\ \E okUser \in BOOLEAN, okProxy \in BOOLEAN :
                  /\ userPassFile' = (userPassFile /\ ~okUser)
                  /\ proxyAuthFile' = (proxyAuthFile /\ ~(okProxy /\ params.proxyAuth))
       ELSE UNCHANGED <<unlinkAttempts, userPassFile, proxyAuthFile>>
    /\ hpc' = "forward"
    /\ UNCHANGED <<mainVars, srvVars, procVars, tempFilesDropped, innerVars, outerVars,
                   rpcIn, req, arrived, replies, forwarded>>
    /\ UNCHANGED nonTunnelVars

\* on_openvpn_event: the event is handed to TunnelEvent::from_openvpn_event
\* and, when that yields a tunnel event, to the daemon callback on_event.
SinkForward ==
    /\ hpc = "forward"
    /\ forwarded' = Append(forwarded, sinkArg.kind)
    /\ hpc' = "ack"
    /\ UNCHANGED <<mainVars, srvVars, procVars, fileVars, innerVars, outerVars,
                   rpcIn, req, sinkArg, arrived, sinkLog, replies, unlinkAttempts>>
    /\ UNCHANGED nonTunnelVars

\* event(): Ok(Response::new(())).
HandlerAck ==
    /\ hpc = "ack"
    /\ replies' = Append(replies, "Ok")
    /\ hpc' = "idle"
    /\ req' = None
    /\ sinkArg' = None
    /\ UNCHANGED <<mainVars, srvVars, procVars, fileVars, innerVars, outerVars,
                   rpcIn, arrived, sinkLog, forwarded, unlinkAttempts>>
    /\ UNCHANGED nonTunnelVars

\* ------------------------------------------------------------------------
\* Route manager (talpid-core/src/routing/unix.rs): the RouteManager API on
\* the calling thread and the actor task that owns the route table
\* ------------------------------------------------------------------------

\* The sets of required routes handed to new and add_routes: each has one
\* route per destination, two of them disagree on the node of d1.
RouteSets ==
    { { [dest |-> "d1", node |-> "n1"] },
      { [dest |-> "d2", node |-> "n1"] },
      { [dest |-> "d1", node |-> "n2"], [dest |-> "d2", node |-> "n1"] } }

NoRoutes == {}

NoCall == [op |-> "none", id |-> 0, routes |-> {}]

\* API calls that carry a oneshot sender for the result of the platform.
ReplyOps == {"add_routes", "enable_exclusions_routes", "route_exclusions_dns"}

\* API calls that only enqueue their command.
SilentOps == {"clear_routes", "disable_exclusions_routes"}

\* Variant of CommandOf: clear_routes sends DisableExclusionsRoutes.
CommandOf_ClearAsDisable(op) ==
    CASE op = "add_routes" -> "AddRoutes"
      [] op = "clear_routes" -> "DisableExclusionsRoutes"
      [] op = "enable_exclusions_routes" -> "EnableExclusionsRoutes"
      [] op = "disable_exclusions_routes" -> "DisableExclusionsRoutes"
      [] op = "route_exclusions_dns" -> "RouteExclusionsDns"
      [] op \in {"stop", "drop"} -> "Shutdown"

\* The RouteManagerCommand variant each API function sends.
CommandOf(op) ==
    CASE op = "add_routes" -> "AddRoutes"
      [] op = "clear_routes" -> "ClearRoutes"
      [] op = "enable_exclusions_routes" -> "EnableExclusionsRoutes"
      [] op = "disable_exclusions_routes" -> "DisableExclusionsRoutes"
      [] op = "route_exclusions_dns" -> "RouteExclusionsDns"
      [] op \in {"stop", "drop"} -> "Shutdown"

RouteInit ==
    /\ manager = "absent"
    /\ manage_tx = FALSE
    /\ queue = <<>>
    /\ actor = "absent"
    /\ applied = NoRoutes
    /\ exclusions = FALSE
    /\ apiPc = "idle"
    /\ call = NoCall
    /\ reply = "none"
    /\ sendLog = <<>>
    /\ processed = <<>>
    /\ returned = <<>>

\* The number of API calls made on the manager after new.
CallsMade == Len(returned) - 1 + (IF apiPc = "blocked" THEN 1 ELSE 0)

\* The number the next call gets: calls are numbered in the order made.
NextId == Len(returned) + 1

\* The actor commits a set of required routes: they are added to the
\* applied ones, and a route to a destination that already has one takes
\* its place.
ActorApply(app, S) ==
    { r \in app : ~ \E n \in S : n.dest = r.dest } \cup S

\* RouteManager::new: RouteManagerImpl::new applies the required routes or
\* fails with a platform error; on success the actor is spawned.
New ==
    /\ manager = "absent"
    /\ \E S \in RouteSets, ok \in BOOLEAN :
          IF ok
          THEN /\ manager' = "live"
               /\ manage_tx' = TRUE
               /\ actor' = "running"
               /\ applied' = ActorApply(NoRoutes, S)
               /\ returned' = Append(returned,
                      [op |-> "new", id |-> NextId, res |-> "Ok", routes |-> S])
          ELSE /\ manager' = "failed"
               /\ returned' = Append(returned,
                      [op |-> "new", id |-> NextId, res |-> "PlatformError", routes |-> S])
               /\ UNCHANGED <<manage_tx, actor, applied>>
    /\ UNCHANGED <<queue, exclusions, apiPc, call, reply, sendLog, processed>>
    /\ UNCHANGED nonRouteVars

\* Variant of Enqueue: the newest command overtakes the ones waiting.
Enqueue_Front(q, c) == <<c>> \o q

\* The unbounded mpsc channel created by new: one queue, in sending order.
Enqueue(q, c) == Append(q, c)

\* unbounded_send succeeds as long as the receiver, held by the actor's run
\* loop, exists.
SendSucceeds(a) == a = "running"

\* The API function returns at once with `res`.
ReturnNow(op, S, res) ==
    /\ returned' = Append(returned, [op |-> op, id |-> NextId, res |-> res, routes |-> S])
    /\ UNCHANGED <<apiPc, call, reply>>

\* The command is sent: record the attempt and, when it went through, queue it.
Send(op, S) ==
    /\ sendLog' = Append(sendLog,
           [cmd |-> CommandOf(op), id |-> NextId, ok |-> SendSucceeds(actor)])
    /\ queue' = IF SendSucceeds(actor)
                THEN Enqueue(queue, [cmd |-> CommandOf(op), id |-> NextId, routes |-> S])
                ELSE queue

\* runtime.block_on(rx) on the oneshot receiver of the command just sent.
BlockOn(op, S) ==
    /\ apiPc' = "blocked"
    /\ call' = [op |-> op, id |-> NextId, routes |-> S]
    /\ reply' = "pending"
    /\ UNCHANGED returned

\* add_routes, enable_exclusions_routes, route_exclusions_dns up to block_on.
ReplyCall(op, S) ==
    /\ manager = "live"
    /\ apiPc = "idle"
    /\ CallsMade < MaxCalls
    /\ IF manage_tx
       THEN /\ Send(op, S)
            /\ IF SendSucceeds(actor)
               THEN BlockOn(op, S)
               ELSE ReturnNow(op, S, "RouteManagerDown")
       ELSE /\ ReturnNow(op, S, "RouteManagerDown")
            /\ UNCHANGED <<sendLog, queue>>
    /\ UNCHANGED <<manager, manage_tx, actor, applied, exclusions, processed>>
    /\ UNCHANGED nonRouteVars

\* clear_routes, disable_exclusions_routes.
SilentCall(op) ==
    /\ manager = "live"
    /\ apiPc = "idle"
    /\ CallsMade < MaxCalls
    /\ IF manage_tx
       THEN /\ Send(op, {})
            /\ IF SendSucceeds(actor)
               THEN ReturnNow(op, {}, "Ok")
               ELSE ReturnNow(op, {}, "RouteManagerDown")
       ELSE /\ ReturnNow(op, {}, "RouteManagerDown")
            /\ UNCHANGED <<sendLog, queue>>
    /\ UNCHANGED <<manager, manage_tx, actor, applied, exclusions, processed>>
    /\ UNCHANGED nonRouteVars

\* add_routes(routes).
AddRoutes ==
    /\ apiPc = "idle"
    /\ \E S \in RouteSets : ReplyCall("add_routes", S)

\* clear_routes().
ClearRoutes ==
    /\ apiPc = "idle"
    /\ SilentCall("clear_routes")

\* enable_exclusions_routes().
EnableExclusionsRoutes ==
    /\ apiPc = "idle"
    /\ ReplyCall("enable_exclusions_routes", {})

\* disable_exclusions_routes().
DisableExclusionsRoutes ==
    /\ apiPc = "idle"
    /\ SilentCall("disable_exclusions_routes")

\* route_exclusions_dns(tunnel_alias, dns_servers).
RouteExclusionsDns ==
    /\ apiPc = "idle"
    /\ ReplyCall("route_exclusions_dns", {})

\* Variant of TakeManageTx: stop leaves the sender in place.
TakeManageTx_Keep(tx) == tx

\* self.manage_tx.take(): what manage_tx holds afterwards.
TakeManageTx(tx) == FALSE

\* Variant of StopBlocks: stop returns as soon as Shutdown is sent.
StopBlocks_Never(sendOk) == FALSE

\* Does stop block on wait_rx after the send?
StopBlocks(sendOk) == sendOk

\* The body of stop, called as stop() or from Drop::drop.
StopBody(op) ==
    /\ manager = "live"
    /\ apiPc = "idle"
    /\ manage_tx' = TakeManageTx(manage_tx)
    /\ IF manage_tx
       THEN /\ Send(op, {})
            /\ IF StopBlocks(SendSucceeds(actor))
               THEN BlockOn(op, {}) /\ UNCHANGED manager
               ELSE /\ ReturnNow(op, {}, "unit")
                    /\ manager' = IF op = "drop" THEN "dropped" ELSE manager
       ELSE /\ ReturnNow(op, {}, "unit")
            /\ manager' = IF op = "drop" THEN "dropped" ELSE manager
            /\ UNCHANGED <<sendLog, queue>>
    /\ UNCHANGED <<actor, applied, exclusions, processed>>
    /\ UNCHANGED nonRouteVars

\* RouteManager::stop.
Stop ==
    /\ CallsMade < MaxCalls
    /\ StopBody("stop")

\* impl Drop for RouteManager: drop calls stop.
DropManager ==
    /\ CallsMade < MaxCalls
    /\ StopBody("drop")

\* Variant of BlockOnResult: the error of the platform is swallowed.
BlockOnResult_ErrAsOk(op, rep) ==
    IF op \in {"stop", "drop"} THEN "unit" ELSE "Ok"

\* What the API function returns once block_on has returned: the reply of
\* the actor, or Ok(()) when the sender was dropped without a reply; stop
\* returns nothing in both cases.
BlockOnResult(op, rep) ==
    IF op \in {"stop", "drop"} THEN "unit"
    ELSE IF rep = "err" THEN "PlatformError"
    ELSE "Ok"

\* block_on returns: the reply arrived or its sender was dropped.
BlockOnReturns ==
    /\ apiPc = "blocked"
    /\ reply # "pending"
    /\ returned' = Append(returned,
           [op |-> call.op, id |-> call.id, res |-> BlockOnResult(call.op, reply),
            routes |-> call.routes])
    /\ apiPc' = "idle"
    /\ call' = NoCall
    /\ reply' = "none"
    /\ manager' = IF call.op = "drop" THEN "dropped" ELSE manager
    /\ UNCHANGED <<manage_tx, queue, actor, applied, exclusions, sendLog, processed>>
    /\ UNCHANGED nonRouteVars

\* The actor takes the next command of the queue.
ActorTakes(cmds) ==
    /\ actor = "running"
    /\ queue # <<>>
    /\ Head(queue).cmd \in cmds
    /\ queue' = Tail(queue)
    /\ processed' = Append(processed, Head(queue))

\* What a command with a result does to the applied routes when it succeeds.
ActorApplied(c, app) ==
    IF c.cmd = "AddRoutes" THEN ActorApply(app, c.routes) ELSE app

\* What it does to the exclusions routes.
ActorExclusions(c, ex) ==
    IF c.cmd = "EnableExclusionsRoutes" THEN TRUE ELSE ex

\* The actor executes AddRoutes, EnableExclusionsRoutes or RouteExclusionsDns
\* and sends the result, Ok or a platform error, on the reply channel.
ActorRepliedCommand ==
    /\ ActorTakes({"AddRoutes", "EnableExclusionsRoutes", "RouteExclusionsDns"})
    /\ \E ok \in BOOLEAN :
          /\ applied' = IF ok THEN ActorApplied(Head(queue), applied) ELSE applied
          /\ exclusions' = IF ok THEN ActorExclusions(Head(queue), exclusions) ELSE exclusions
          /\ reply' = IF ok THEN "ok" ELSE "err"
    /\ UNCHANGED <<manager, manage_tx, actor, apiPc, call, sendLog, returned>>
    /\ UNCHANGED nonRouteVars

\* The actor executes ClearRoutes (every applied route is revoked) or
\* DisableExclusionsRoutes; neither has a reply channel.
ActorSilentCommand ==
    /\ ActorTakes({"ClearRoutes", "DisableExclusionsRoutes"})
    /\ applied' = IF Head(queue).cmd = "ClearRoutes" THEN NoRoutes ELSE applied
    /\ exclusions' = IF Head(queue).cmd = "DisableExclusionsRoutes" THEN FALSE ELSE exclusions
    /\ UNCHANGED <<manager, manage_tx, actor, apiPc, call, reply, sendLog, returned>>
    /\ UNCHANGED nonRouteVars

\* The actor executes Shutdown: it reverts what it applied, acknowledges and
\* ends its loop.
ActorShutdown ==
    /\ ActorTakes({"Shutdown"})
    /\ applied' = NoRoutes
    /\ exclusions' = FALSE
    /\ reply' = "ok"
    /\ actor' = "stopped"
    /\ UNCHANGED <<manager, manage_tx, apiPc, call, sendLog, returned>>
    /\ UNCHANGED nonRouteVars

\* The actor task dies: its receiver and the commands still queued are
\* dropped, and with them the reply sender of the call in progress.
ActorCrash ==
    /\ actor = "running"
    /\ actor' = "crashed"
    /\ queue' = <<>>
    /\ reply' = IF reply = "pending" THEN "canceled" ELSE reply
    /\ UNCHANGED <<manager, manage_tx, applied, exclusions, apiPc, call, sendLog,
                   processed, returned>>
    /\ UNCHANGED nonRouteVars

\* ------------------------------------------------------------------------
\* Service lifecycle (mullvad-daemon/src/system_service.rs): run_service on
\* the service main thread, the control handler called by the OS, the event
\* monitor thread and PersistentServiceStatus
\* ------------------------------------------------------------------------

\* The service controls the OS can deliver, by the arm of the handler's
\* match they reach; UserDefined stands for every control of the last arm.
Controls ==
    {"Interrogate", "Stop", "Preshutdown", "PowerEvent", "SessionChange", "UserDefined"}

PendingStates == {"StartPending", "StopPending", "ContinuePending", "PausePending"}

\* Variant of IsPending: only StartPending bumps the checkpoint.
IsPending_OnlyStart(state) == state = "StartPending"

\* The first arm of the match in report_status.
IsPending(state) == state \in PendingStates

\* The checkpoint report_status puts in the status: the value fetch_add
\* returns for a pending state, 0 otherwise.
Checkpoint(state, counter) == IF IsPending(state) THEN counter ELSE 0

\* The shared counter after report_status.
CounterAfter(state, counter) == IF IsPending(state) THEN counter + 1 ELSE counter

\* Variant of AcceptedControls: stop controls are accepted while starting.
AcceptedControls_StopWhileStarting(state) ==
    IF state \in {"Running", "Paused", "StartPending"}
    THEN {"PowerEvent", "SessionChange", "Stop", "Preshutdown"}
    ELSE {}

\* accepted_controls_by_state
AcceptedControls(state) ==
    IF state \in {"Running", "Paused"}
    THEN {"PowerEvent", "SessionChange", "Stop", "Preshutdown"}
    ELSE {}

\* The status report_status hands to set_service_status.
ServiceStatus(state, counter, wait_hint, code) ==
    [state |-> state,
     checkpoint |-> Checkpoint(state, counter),
     wait_hint |-> wait_hint,
     exit_code |-> code,
     controls_accepted |-> AcceptedControls(state)]

\* The result of the control handler.
HandlerResult(c) ==
    IF c \in {"Interrogate", "Stop", "Preshutdown", "PowerEvent", "SessionChange"}
    THEN "NoError"
    ELSE "NotImplemented"

\* Variant of HandlerForwards: Interrogate is forwarded as well.
HandlerForwards_Interrogate(c) ==
    c \in {"Interrogate", "Stop", "Preshutdown", "PowerEvent", "SessionChange"}

\* Does the control handler forward the control to the event monitor?
HandlerForwards(c) == c \in {"Stop", "Preshutdown", "PowerEvent", "SessionChange"}

\* Variant of IsShutdownControl: every forwarded control stops the service.
IsShutdownControl_Any(c) == TRUE

\* The first arm of the match in the event monitor.
IsShutdownControl(c) == c \in {"Stop", "Preshutdown"}

\* Variant of ExitCode: a main loop that returned Ok is a clean exit.
ExitCode_IgnoreCleanShutdown(result, clean) ==
    IF result = "Ok" THEN "NO_ERROR" ELSE "ServiceSpecific(1)"

\* The match on `result` at the end of run_service.
ExitCode(result, clean) ==
    IF result = "Ok" /\ clean THEN "NO_ERROR" ELSE "ServiceSpecific(1)"

ServiceInit ==
    /\ svcPc = "register"
    /\ monPc = "unspawned"
    /\ event_rx = <<>>
    /\ reports = <<>>
    /\ checkpoint_counter = 1
    /\ monCheckpoint = 0
    /\ clean_shutdown = FALSE
    /\ cleanRead = <<>>
    /\ shutdownCalled = FALSE
    /\ daemonResult = None
    /\ loopCause = None
    /\ exit_code = None
    /\ handlerLog = <<>>
    /\ handled = <<>>
    /\ now = 0
    /\ logoff_time = <<>>
    /\ should_restart = FALSE
    /\ restarts = 0
    /\ helpers = 0
    /\ hibLog = <<>>

\* report_status on the calling thread: the counter is bumped for a pending
\* state and the status is handed to the OS.  Wait hints are in seconds;
\* Duration::default() is 0.
ReportStatus(state, wait_hint, code) ==
    /\ reports' = Append(reports, ServiceStatus(state, checkpoint_counter, wait_hint, code))
    /\ checkpoint_counter' = CounterAfter(state, checkpoint_counter)

\* service_control_handler::register succeeds.
RegisterHandler ==
    /\ svcPc = "register"
    /\ svcPc' = "pending_start"
    /\ UNCHANGED <<monPc, event_rx, reports, checkpoint_counter, monCheckpoint,
                   clean_shutdown, cleanRead, shutdownCalled, daemonResult, loopCause,
                   exit_code, handlerLog, handled, hibVars>>
    /\ UNCHANGED nonSvcVars

\* service_control_handler::register fails: run_service returns the error.
RegisterHandlerFails ==
    /\ svcPc = "register"
    /\ svcPc' = "returned"
    /\ UNCHANGED <<monPc, event_rx, reports, checkpoint_counter, monCheckpoint,
                   clean_shutdown, cleanRead, shutdownCalled, daemonResult, loopCause,
                   exit_code, handlerLog, handled, hibVars>>
    /\ UNCHANGED nonSvcVars

\* set_pending_start(1s)
SetPendingStart ==
    /\ svcPc = "pending_start"
    /\ ReportStatus("StartPending", 1, "NO_ERROR")
    /\ svcPc' = "build_runtime"
    /\ UNCHANGED <<monPc, event_rx, monCheckpoint, clean_shutdown, cleanRead,
                   shutdownCalled, daemonResult, loopCause, exit_code, handlerLog, handled, hibVars>>
    /\ UNCHANGED nonSvcVars

\* The tokio runtime is built.
BuildRuntime ==
    /\ svcPc = "build_runtime"
    /\ svcPc' = "create_daemon"
    /\ UNCHANGED <<monPc, event_rx, reports, checkpoint_counter, monCheckpoint,
                   clean_shutdown, cleanRead, shutdownCalled, daemonResult, loopCause,
                   exit_code, handlerLog, handled, hibVars>>
    /\ UNCHANGED nonSvcVars

\* The tokio runtime cannot be built: set_stopped(ServiceSpecific(1)) and
\* return the error.
BuildRuntimeFails ==
    /\ svcPc = "build_runtime"
    /\ exit_code' = "ServiceSpecific(1)"
    /\ ReportStatus("Stopped", 0, "ServiceSpecific(1)")
    /\ svcPc' = "returned"
    /\ UNCHANGED <<monPc, event_rx, monCheckpoint, clean_shutdown, cleanRead,
                   shutdownCalled, daemonResult, loopCause, handlerLog, handled, hibVars>>
    /\ UNCHANGED nonSvcVars

\* create_daemon returns the daemon; the closure of and_then is entered.
CreateDaemon ==
    /\ svcPc = "create_daemon"
    /\ svcPc' = "start_monitor"
    /\ UNCHANGED <<monPc, event_rx, reports, checkpoint_counter, monCheckpoint,
                   clean_shutdown, cleanRead, shutdownCalled, daemonResult, loopCause,
                   exit_code, handlerLog, handled, hibVars>>
    /\ UNCHANGED nonSvcVars

\* create_daemon fails: `result` is its error, the closure is skipped.
CreateDaemonFails ==
    /\ svcPc = "create_daemon"
    /\ daemonResult' = "Err"
    /\ loopCause' = "create_failed"
    /\ svcPc' = "exit_code"
    /\ UNCHANGED <<monPc, event_rx, reports, checkpoint_counter, monCheckpoint,
                   clean_shutdown, cleanRead, shutdownCalled, exit_code, handlerLog, handled, hibVars>>
    /\ UNCHANGED nonSvcVars

\* start_event_monitor: the monitor thread is spawned with a clone of the
\* status helper, the receiver and the clean_shutdown flag.
StartEventMonitor ==
    /\ svcPc = "start_monitor"
    /\ monPc' = "recv"
    /\ svcPc' = "set_running"
    /\ UNCHANGED <<event_rx, reports, checkpoint_counter, monCheckpoint,
                   clean_shutdown, cleanRead, shutdownCalled, daemonResult, loopCause,
                   exit_code, handlerLog, handled, hibVars>>
    /\ UNCHANGED nonSvcVars

\* set_running()
SetRunning ==
    /\ svcPc = "set_running"
    /\ ReportStatus("Running", 0, "NO_ERROR")
    /\ svcPc' = "daemon_run"
    /\ UNCHANGED <<monPc, event_rx, monCheckpoint, clean_shutdown, cleanRead,
                   shutdownCalled, daemonResult, loopCause, exit_code, handlerLog, handled, hibVars>>
    /\ UNCHANGED nonSvcVars

\* Why daemon.run() returned: with an error, because the shutdown handle was
\* invoked by the event monitor, or for a shutdown nobody asked the monitor for.
LoopCause(result, called) ==
    IF result = "Err" THEN "error"
    ELSE IF called THEN "os_shutdown"
    ELSE "other_shutdown"

\* daemon.run() returns; it can do so at any time, with Ok or with an error.
DaemonRunReturns ==
    /\ svcPc = "daemon_run"
    /\ \E r \in {"Ok", "Err"} :
          /\ daemonResult' = r
          /\ loopCause' = LoopCause(r, shutdownCalled)
    /\ svcPc' = "exit_code"
    /\ UNCHANGED <<monPc, event_rx, reports, checkpoint_counter, monCheckpoint,
                   clean_shutdown, cleanRead, shutdownCalled, exit_code, handlerLog, handled, hibVars>>
    /\ UNCHANGED nonSvcVars

\* The match on `result`: clean_shutdown is loaded when the result is Ok.
ComputeExitCode ==
    /\ svcPc = "exit_code"
    /\ cleanRead' = IF daemonResult = "Ok" THEN <<clean_shutdown>> ELSE cleanRead
    /\ exit_code' = ExitCode(daemonResult, clean_shutdown)
    /\ svcPc' = "set_stopped"
    /\ UNCHANGED <<monPc, event_rx, reports, checkpoint_counter, monCheckpoint,
                   clean_shutdown, shutdownCalled, daemonResult, loopCause,
                   handlerLog, handled, hibVars>>
    /\ UNCHANGED nonSvcVars

\* set_stopped(exit_code), then run_service returns.
SetStopped ==
    /\ svcPc = "set_stopped"
    /\ ReportStatus("Stopped", 0, exit_code)
    /\ svcPc' = "returned"
    /\ UNCHANGED <<monPc, event_rx, monCheckpoint, clean_shutdown, cleanRead,
                   shutdownCalled, daemonResult, loopCause, exit_code, handlerLog, handled, hibVars>>
    /\ UNCHANGED nonSvcVars

\* After run_service returned the dispatcher returns and the process ends,
\* the event monitor thread with it.
ProcessExit ==
    /\ svcPc = "returned"
    /\ svcPc' = "exited"
    /\ monPc' = IF monPc = "unspawned" THEN monPc ELSE "killed"
    /\ UNCHANGED <<event_rx, reports, checkpoint_counter, monCheckpoint,
                   clean_shutdown, cleanRead, shutdownCalled, daemonResult, loopCause,
                   exit_code, handlerLog, handled, hibVars>>
    /\ UNCHANGED nonSvcVars

\* The parameter the OS delivers with a control: the kind of power event,
\* or the reason of a session change with the kind of session it names.
\* Resume stands for ResumeAutomatic and ResumeSuspend.
EventDetails(c) ==
    IF c = "PowerEvent" THEN {"Suspend", "Resume", "OtherPowerEvent"}
    ELSE IF c = "SessionChange"
    THEN {"Logoff_Interactive", "Logoff_NotInteractive", "OtherSessionChange"}
    ELSE {"none"}

\* The service control manager delivers the controls the last reported
\* status accepts; Interrogate and user-defined controls at any time.
OsMaySend(c) ==
    \/ c \in {"Interrogate", "UserDefined"}
    \/ /\ reports # <<>>
       /\ c \in reports[Len(reports)].controls_accepted

\* The OS calls the control handler registered by run_service.
ControlHandler ==
    /\ svcPc \notin {"register", "exited"}
    /\ Len(handlerLog) < MaxControls
    /\ \E c \in Controls : \E d \in EventDetails(c) :
          /\ OsMaySend(c)
          /\ handlerLog' = Append(handlerLog,
                [control |-> c, param |-> d, result |-> HandlerResult(c)])
          /\ event_rx' = IF HandlerForwards(c)
                         THEN Append(event_rx, [control |-> c, param |-> d])
                         ELSE event_rx
    /\ UNCHANGED <<svcPc, monPc, reports, checkpoint_counter, monCheckpoint,
                   clean_shutdown, cleanRead, shutdownCalled, daemonResult, loopCause,
                   exit_code, handled, hibVars>>
    /\ UNCHANGED nonSvcVars

\* Event monitor: Stop or Preshutdown is received and report_status takes
\* the checkpoint for StopPending.
MonitorRecvStop ==
    /\ monPc = "recv"
    /\ event_rx # <<>>
    /\ IsShutdownControl(Head(event_rx).control)
    /\ event_rx' = Tail(event_rx)
    /\ handled' = Append(handled, Head(event_rx))
    /\ monCheckpoint' = Checkpoint("StopPending", checkpoint_counter)
    /\ checkpoint_counter' = CounterAfter("StopPending", checkpoint_counter)
    /\ monPc' = "report_stop"
    /\ UNCHANGED <<svcPc, reports, clean_shutdown, cleanRead, shutdownCalled,
                   daemonResult, loopCause, exit_code, handlerLog, hibVars>>
    /\ UNCHANGED nonSvcVars

\* Event monitor: set_pending_stop(10s) hands the status to the OS.
MonitorReportStop ==
    /\ monPc = "report_stop"
    /\ reports' = Append(reports,
           [ServiceStatus("StopPending", 0, 10, "NO_ERROR") EXCEPT !.checkpoint = monCheckpoint])
    /\ monCheckpoint' = 0
    /\ monPc' = "store"
    /\ UNCHANGED <<svcPc, event_rx, checkpoint_counter, clean_shutdown, cleanRead,
                   shutdownCalled, daemonResult, loopCause, exit_code, handlerLog, handled, hibVars>>
    /\ UNCHANGED nonSvcVars

\* Variant of MonitorStoreClean: the flag is left as it is.
MonitorStoreClean_NoStore ==
    /\ monPc = "store"
    /\ monPc' = "shutdown"
    /\ UNCHANGED <<svcPc, event_rx, reports, checkpoint_counter, monCheckpoint,
                   clean_shutdown, cleanRead, shutdownCalled, daemonResult, loopCause,
                   exit_code, handlerLog, handled, hibVars>>
    /\ UNCHANGED nonSvcVars

\* Event monitor: clean_shutdown.store(true)
MonitorStoreClean ==
    /\ monPc = "store"
    /\ clean_shutdown' = TRUE
    /\ monPc' = "shutdown"
    /\ UNCHANGED <<svcPc, event_rx, reports, checkpoint_counter, monCheckpoint,
                   cleanRead, shutdownCalled, daemonResult, loopCause, exit_code,
                   handlerLog, handled, hibVars>>
    /\ UNCHANGED nonSvcVars

\* Event monitor: shutdown_handle.shutdown()
MonitorShutdown ==
    /\ monPc = "shutdown"
    /\ shutdownCalled' = TRUE
    /\ monPc' = "recv"
    /\ UNCHANGED <<svcPc, event_rx, reports, checkpoint_counter, monCheckpoint,
                   clean_shutdown, cleanRead, daemonResult, loopCause, exit_code,
                   handlerLog, handled, hibVars>>
    /\ UNCHANGED nonSvcVars

\* The times that pass between two readings of the clock, in seconds.
Delays == {0, 4, 5}

\* Instant::now() and Instant::elapsed(): the monotonic clock is read, some
\* time after its last reading.
ReadClock == \E dt \in Delays : now' = now + dt

\* interactive_session(session_id): the logon session of that id has the
\* interactive logon type.
interactive_session(d) == d = "Logoff_Interactive"

\* register_logoff(session_id)
register_logoff(d) ==
    /\ IF interactive_session(d)
       THEN /\ ReadClock
            /\ logoff_time' = <<now'>>
       ELSE UNCHANGED <<now, logoff_time>>
    /\ UNCHANGED <<should_restart, restarts, helpers>>

\* Variant of PendingHibernation: a logoff exactly 5 seconds ago counts.
PendingHibernation_Inclusive(elapsed) == elapsed <= 5

\* logoff_time.elapsed() < Duration::from_secs(5)
PendingHibernation(elapsed) == elapsed < 5

\* register_suspend()
register_suspend ==
    /\ IF logoff_time # <<>>
       THEN /\ ReadClock
            /\ should_restart' = IF PendingHibernation(now' - logoff_time[1])
                                 THEN TRUE
                                 ELSE should_restart
       ELSE UNCHANGED <<now, should_restart>>
    /\ UNCHANGED <<logoff_time, restarts, helpers>>

\* Variant of register_resume: the flag is cleared only when the helper
\* process was started.
register_resume_ClearsOnSuccess ==
    /\ restarts' = IF should_restart THEN restarts + 1 ELSE restarts
    /\ IF should_restart
       THEN \E started \in BOOLEAN :
               /\ helpers' = IF started THEN helpers + 1 ELSE helpers
               /\ should_restart' = ~started
       ELSE UNCHANGED <<should_restart, helpers>>
    /\ UNCHANGED <<now, logoff_time>>

\* register_resume(): the flag is cleared and restart_daemon is invoked,
\* which starts the helper process or fails.
register_resume ==
    /\ should_restart' = FALSE
    /\ restarts' = IF should_restart THEN restarts + 1 ELSE restarts
    /\ IF should_restart
       THEN \E started \in BOOLEAN : helpers' = IF started THEN helpers + 1 ELSE helpers
       ELSE helpers' = helpers
    /\ UNCHANGED <<now, logoff_time>>

\* The arms of the event monitor for power events and session changes.
HibernationDetector(d) ==
    IF d \in {"Logoff_Interactive", "Logoff_NotInteractive"} THEN register_logoff(d)
    ELSE IF d = "Suspend" THEN register_suspend
    ELSE IF d = "Resume" THEN register_resume
    ELSE UNCHANGED <<now, logoff_time, should_restart, restarts, helpers>>

\* Event monitor: a power event or a session change is received and handed
\* to the hibernation detector.
MonitorRecvOther ==
    /\ monPc = "recv"
    /\ event_rx # <<>>
    /\ ~IsShutdownControl(Head(event_rx).control)
    /\ event_rx' = Tail(event_rx)
    /\ handled' = Append(handled, Head(event_rx))
    /\ HibernationDetector(Head(event_rx).param)
    /\ UNCHANGED <<svcPc, monPc, reports, checkpoint_counter, monCheckpoint,
                   clean_shutdown, cleanRead, shutdownCalled, daemonResult, loopCause,
                   exit_code, handlerLog, hibLog>>
    /\ UNCHANGED nonSvcVars

\* The service once set_running() has been reported: the event monitor
\* waits for controls with a default HibernationDetector.
ServiceRunning ==
    /\ svcPc = "daemon_run"
    /\ monPc = "recv"
    /\ event_rx = <<>>
    /\ reports = <<ServiceStatus("StartPending", 1, 1, "NO_ERROR"),
                   ServiceStatus("Running", 2, 0, "NO_ERROR")>>
    /\ checkpoint_counter = 2
    /\ monCheckpoint = 0
    /\ clean_shutdown = FALSE
    /\ cleanRead = <<>>
    /\ shutdownCalled = FALSE
    /\ daemonResult = None
    /\ loopCause = None
    /\ exit_code = None
    /\ handlerLog = <<>>
    /\ handled = <<>>
    /\ now = 0
    /\ logoff_time = <<>>
    /\ should_restart = FALSE
    /\ restarts = 0
    /\ helpers = 0
    /\ hibLog = <<>>

\* The event monitor hands an event to the hibernation detector; the event
\* is logged with the clock reading of the detector and with whether
\* restart_daemon was invoked.
RegisterEvent(d) ==
    /\ Len(hibLog) < MaxHibEvents
    /\ HibernationDetector(d)
    /\ hibLog' = Append(hibLog,
          [event |-> d, at |-> now', restarted |-> restarts' # restarts,
           started |-> helpers' # helpers])
    /\ UNCHANGED <<svcPc, monPc, event_rx, reports, checkpoint_counter, monCheckpoint,
                   clean_shutdown, cleanRead, shutdownCalled, daemonResult, loopCause,
                   exit_code, handlerLog, handled>>
    /\ UNCHANGED nonSvcVars

\* A session logoff reaches the detector.
HibernationLogoff ==
    /\ monPc = "recv"
    /\ \E d \in {"Logoff_Interactive", "Logoff_NotInteractive"} : RegisterEvent(d)

\* A suspend event reaches the detector.
HibernationSuspend ==
    /\ monPc = "recv"
    /\ RegisterEvent("Suspend")

\* A resume event reaches the detector.
HibernationResume ==
    /\ monPc = "recv"
    /\ RegisterEvent("Resume")

\* ------------------------------------------------------------------------
\* App versions (mullvad-daemon/src/version_check.rs): AppVersion, its
\* parser, its printer, its order, and suggested_upgrade
\* ------------------------------------------------------------------------

\* Option<T>: <<>> is None, <<x>> is Some(x).
Some(x) == <<x>>

\* AppVersion::Stable(year, version)
Stable(y, v) == [tag |-> "Stable", year |-> y, version |-> v]

\* AppVersion::Beta(year, version, beta_version)
Beta(y, v, b) == [tag |-> "Beta", year |-> y, version |-> v, beta |-> b]

\* The character at position i of a string.
CharAt(s, i) == SubSeq(s, i, i)

\* \d of the regular expressions, on ASCII text.
IsDigit(c) == c \in {"0", "1", "2", "3", "4", "5", "6", "7", "8", "9"}

\* (\d+): a non-empty run of digits.
IsDigits(s) ==
    /\ Len(s) > 0
    /\ \A i \in 1..Len(s) : IsDigit(CharAt(s, i))

\* The value of a digit.
DigitValue(c) ==
    CHOOSE d \in 0..9 : CharAt("0123456789", d + 1) = c

\* A run of digits without its leading zeros.
RECURSIVE StripZeros(_)
StripZeros(s) ==
    IF Len(s) > 1 /\ Head(s) = "0" THEN StripZeros(Tail(s)) ELSE s

\* The number a run of digits denotes.
RECURSIVE DigitsValue(_)
DigitsValue(s) ==
    IF Len(s) = 0 THEN 0
    ELSE DigitsValue(SubSeq(s, 1, Len(s) - 1)) * 10 + DigitValue(CharAt(s, Len(s)))

\* str::parse::<u32>().ok() on a run of digits: None when the number does
\* not fit.  Numbers of more than 9 digits are taken not to fit (those of
\* 10 digits that do fit are beyond the integers of the model).
ParseU32(s) ==
    IF Len(StripZeros(s)) > 9 THEN <<>> ELSE Some(DigitsValue(StripZeros(s)))

\* format!("{}", n) for an unsigned integer.
RECURSIVE Decimal(_)
Decimal(n) ==
    IF n < 10 THEN CharAt("0123456789", n + 1)
    ELSE Decimal(n \div 10) \o CharAt("0123456789", (n % 10) + 1)

\* Variant of YearMatches: any run of digits is a year.
YearMatches_AnyLength(s, dot) ==
    /\ dot > 1
    /\ IsDigits(SubSeq(s, 1, dot - 1))

\* ^(\d{4})\. : the text starts with four digits, followed by the dot at
\* position `dot`.
YearMatches(s, dot) ==
    /\ dot = 5
    /\ IsDigits(SubSeq(s, 1, dot - 1))

\* The positions of the dots of a text.
Dots(s) == { i \in 1..Len(s) : CharAt(s, i) = "." }

\* STABLE_REGEX.captures(version): the captured groups, <<>> if the text
\* does not match ^(\d{4})\.(\d+)$.
StableCaptures(s) ==
    LET m == { dot \in Dots(s) :
                 /\ YearMatches(s, dot)
                 /\ IsDigits(SubSeq(s, dot + 1, Len(s))) }
    IN  IF m = {} THEN <<>>
        ELSE LET dot == CHOOSE d \in m : TRUE
             IN  Some(<<SubSeq(s, 1, dot - 1), SubSeq(s, dot + 1, Len(s))>>)

\* BETA_REGEX.captures(version): the captured groups, <<>> if the text does
\* not match ^(\d{4})\.(\d+)-beta(\d+)$.
BetaCaptures(s) ==
    LET m == { p \in Dots(s) \X (1..Len(s)) :
                 /\ YearMatches(s, p[1])
                 /\ p[2] > p[1]
                 /\ IsDigits(SubSeq(s, p[1] + 1, p[2] - 1))
                 /\ p[2] + 4 <= Len(s)
                 /\ SubSeq(s, p[2], p[2] + 4) = "-beta"
                 /\ IsDigits(SubSeq(s, p[2] + 5, Len(s))) }
    IN  IF m = {} THEN <<>>
        ELSE LET p == CHOOSE q \in m : TRUE
             IN  Some(<<SubSeq(s, 1, p[1] - 1),
                        SubSeq(s, p[1] + 1, p[2] - 1),
                        SubSeq(s, p[2] + 5, Len(s))>>)

\* AppVersion::from_str
from_str(version) ==
    LET stable == StableCaptures(version)
        beta == BetaCaptures(version)
    IN  IF stable # <<>>
        THEN LET year == ParseU32(stable[1][1])
                 serial == ParseU32(stable[1][2])
             IN  IF year = <<>> \/ serial = <<>> THEN <<>>
                 ELSE Some(Stable(year[1], serial[1]))
        ELSE IF beta # <<>>
        THEN LET year == ParseU32(beta[1][1])
                 serial == ParseU32(beta[1][2])
                 beta_version == ParseU32(beta[1][3])
             IN  IF year = <<>> \/ serial = <<>> \/ beta_version = <<>> THEN <<>>
                 ELSE Some(Beta(year[1], serial[1], beta_version[1]))
        ELSE <<>>

\* ToString for AppVersion
to_string(v) ==
    IF v.tag = "Stable"
    THEN Decimal(v.year) \o "." \o Decimal(v.version)
    ELSE Decimal(v.year) \o "." \o Decimal(v.version) \o "-beta" \o Decimal(v.beta)

\* u32::cmp
CmpU32(x, y) == IF x < y THEN "Less" ELSE IF x > y THEN "Greater" ELSE "Equal"

\* Ordering::then
Then(first, second) == IF first = "Equal" THEN second ELSE first

\* Variant of cmp: a beta is greater than the stable version of the same
\* year and version.
cmp_BetaAboveStable(a, b) ==
    LET base == Then(CmpU32(a.year, b.year), CmpU32(a.version, b.version))
    IN  IF a.tag = "Stable" /\ b.tag = "Stable" THEN base
        ELSE IF a.tag = "Stable" /\ b.tag = "Beta" THEN Then(base, "Less")
        ELSE IF a.tag = "Beta" /\ b.tag = "Beta" THEN Then(base, CmpU32(a.beta, b.beta))
        ELSE Then(base, "Greater")

\* Ord for AppVersion
cmp(a, b) ==
    LET base == Then(CmpU32(a.year, b.year), CmpU32(a.version, b.version))
    IN  IF a.tag = "Stable" /\ b.tag = "Stable" THEN base
        ELSE IF a.tag = "Stable" /\ b.tag = "Beta" THEN Then(base, "Greater")
        ELSE IF a.tag = "Beta" /\ b.tag = "Beta" THEN Then(base, CmpU32(a.beta, b.beta))
        ELSE Then(base, "Less")

\* Iterator::max over a sequence of versions: the last of the greatest
\* elements, None for an empty sequence.
RECURSIVE IterMax(_)
IterMax(vs) ==
    IF vs = <<>> THEN <<>>
    ELSE LET rest == IterMax(Tail(vs))
         IN  IF rest = <<>> THEN Some(Head(vs))
             ELSE IF cmp(Head(vs), rest[1]) = "Greater" THEN Some(Head(vs))
             ELSE rest

\* Variant of BetaCandidate: the beta is a candidate whatever show_beta is.
BetaCandidate_Always(response, show_beta) == from_str(response.latest_beta)

\* beta_version in suggested_upgrade
BetaCandidate(response, show_beta) ==
    IF show_beta THEN from_str(response.latest_beta) ELSE <<>>

\* stable_version in suggested_upgrade
StableCandidate(response) ==
    IF response.latest_stable = <<>> THEN <<>> ELSE from_str(response.latest_stable[1])

\* VersionUpdater::suggested_upgrade
suggested_upgrade(current_version, response, show_beta) ==
    LET latest_version ==
            IterMax(StableCandidate(response) \o BetaCandidate(response, show_beta))
    IN  IF latest_version = <<>> THEN <<>>
        ELSE IF cmp(current_version, latest_version[1]) = "Less"
        THEN Some(to_string(latest_version[1]))
        ELSE <<>>

\* The versions the order and the suggestions are exercised on.
Versions ==
    { Stable(y, v) : y \in {2020, 2021}, v \in {1, 4, 99} }
    \cup { Beta(y, v, b) : y \in {2020, 2021}, v \in {1, 4, 99}, b \in {3, 4, 99} }

\* The versions that are printed and parsed back: years of fewer and of
\* more than four digits among them.
PrintedVersions ==
    { Stable(y, v) : y \in {0, 999, 1000, 2020, 9999, 10000}, v \in {0, 4, 15} }
    \cup { Beta(y, v, b) : y \in {0, 999, 1000, 2020, 9999, 10000}, v \in {0, 4, 15},
                           b \in {0, 3} }

\* The texts that are parsed.
VersionTexts ==
    {"2020.4", "2020.4-beta3", "2020.15-beta1-dev-f16be4", "2020.15-dev-f16be4", "",
     "2020.5-beta1-dev-f16be4", "2020.5-dev-f16be4", "0020.4", "20.4", "2020.",
     "2020.4-beta", "2020-4", "12020.4", "2020.04", "2020.4-beta03", "2020.4.1",
     "2020.99999999999", "v2020.4", "2020.4 "}

\* The answers of the version API: latest_stable is optional, and neither
\* text is validated when the answer is decoded.
Responses ==
    [supported : {TRUE},
     latest_stable : {<<>>, Some("2020.4"), Some("2021.1"), Some("2020.5-beta3"),
                      Some("2020.4-dev-f16be4")},
     latest_beta : {"2020.5-beta3", "2020.4-beta99", "2021.1-beta1", "2020.4", ""}]

\* The current versions suggestions are computed for.
CurrentVersions ==
    {Stable(2020, 3), Stable(2020, 4), Stable(2021, 5),
     Beta(2020, 3, 3), Beta(2020, 5, 3), Beta(2021, 5, 3)}

\* Nothing has been called, nothing has returned.
NoCallYet == [fn |-> "none"]

\* The calls that are made.
FnInputs ==
    { [fn |-> "from_str", text |-> t] : t \in VersionTexts }
    \cup { [fn |-> "to_string", v |-> v] : v \in PrintedVersions }
    \cup { [fn |-> "cmp", a |-> t[1], b |-> t[2], c |-> t[3]] :
             t \in Versions \X Versions \X Versions }
    \cup { [fn |-> "suggested_upgrade", current |-> c, response |-> r, show_beta |-> s] :
             c \in CurrentVersions, r \in Responses, s \in BOOLEAN }

\* No call is made and none has returned.
VersionFnIdle ==
    /\ fnIn = NoCallYet
    /\ fnOut = NoCallYet

\* One call is about to be made.
VersionFnInit ==
    /\ fnIn \in FnInputs
    /\ fnOut = NoCallYet

\* AppVersion::from_str is applied to the text.
CallFromStr ==
    /\ fnIn.fn = "from_str"
    /\ fnOut = NoCallYet
    /\ fnOut' = [fn |-> "from_str", parsed |-> from_str(fnIn.text)]
    /\ UNCHANGED fnIn
    /\ UNCHANGED nonVersionFnVars

\* The version is printed and the text is parsed back.
CallToString ==
    /\ fnIn.fn = "to_string"
    /\ fnOut = NoCallYet
    /\ fnOut' = [fn |-> "to_string",
                 text |-> to_string(fnIn.v),
                 parsed |-> from_str(to_string(fnIn.v))]
    /\ UNCHANGED fnIn
    /\ UNCHANGED nonVersionFnVars

\* The three versions are compared with each other and with themselves.
CallCmp ==
    /\ fnIn.fn = "cmp"
    /\ fnOut = NoCallYet
    /\ fnOut' = [fn |-> "cmp",
                 ab |-> cmp(fnIn.a, fnIn.b),
                 ba |-> cmp(fnIn.b, fnIn.a),
                 bc |-> cmp(fnIn.b, fnIn.c),
                 ac |-> cmp(fnIn.a, fnIn.c),
                 aa |-> cmp(fnIn.a, fnIn.a)]
    /\ UNCHANGED fnIn
    /\ UNCHANGED nonVersionFnVars

\* suggested_upgrade is applied.
CallSuggestedUpgrade ==
    /\ fnIn.fn = "suggested_upgrade"
    /\ fnOut = NoCallYet
    /\ fnOut' = [fn |-> "suggested_upgrade",
                 suggestion |-> suggested_upgrade(fnIn.current, fnIn.response,
                                                  fnIn.show_beta)]
    /\ UNCHANGED fnIn
    /\ UNCHANGED nonVersionFnVars

\* ------------------------------------------------------------------------
\* Version updater (mullvad-daemon/src/version_check.rs): VersionUpdater::run,
\* its control channel, its timer and its download with retries.  Times are
\* in seconds and relative to the current instant of the monotonic clock.
\* ------------------------------------------------------------------------

DOWNLOAD_TIMEOUT == 15

UPDATE_CHECK_INTERVAL == 300

UPDATE_INTERVAL == 86400

UPDATE_INTERVAL_ERROR == 21600

\* The builds: PRODUCT_VERSION and is_beta_version().
Builds ==
    {[version |-> "2020.4", beta |-> FALSE],
     [version |-> "2020.4-beta3", beta |-> TRUE],
     [version |-> "2020.5-dev-f16be4", beta |-> FALSE]}

\* The lazy static APP_VERSION, computed once for the build.
AppVersionOf == [b \in Builds |-> from_str(b.version)]

\* APP_VERSION
APP_VERSION == AppVersionOf[build]

\* IS_DEV_BUILD, as the lazy static computes it: APP_VERSION.is_some().
IS_DEV_BUILD == APP_VERSION # <<>>

\* The answers of the version API the updater receives.
ApiResponses ==
    {[supported |-> TRUE, latest_stable |-> Some("2021.1"), latest_beta |-> "2021.2-beta1"],
     [supported |-> FALSE, latest_stable |-> <<>>, latest_beta |-> "2020.5-beta3"]}

\* Fuse::terminated(), and a download future that has completed.
NoDownload == [state |-> "terminated", wait |-> 0, response |-> <<>>]

\* The default AppVersionInfo of load_cache, for a missing cache.
DefaultVersionInfo ==
    [supported |-> IS_DEV_BUILD,
     latest_stable |-> build.version,
     latest_beta |-> build.version,
     suggested_upgrade |-> <<>>]

\* response_to_version_info
response_to_version_info(response) ==
    [supported |-> response.supported,
     latest_stable |-> IF response.latest_stable = <<>> THEN ""
                       ELSE response.latest_stable[1],
     latest_beta |-> response.latest_beta,
     suggested_upgrade |->
        IF APP_VERSION = <<>> THEN <<>>
        ELSE suggested_upgrade(APP_VERSION[1], response,
                               show_beta_releases \/ build.beta)]

\* CachedAppVersionInfo::from
CachedAppVersionInfo(info) ==
    [version_info |-> info, cached_from_version |-> build.version]

\* A version-info.json that cannot be read as a CachedAppVersionInfo.
Unparsable == [json |-> "unparsable"]

\* Variant of write_cache: the defaults are written, not the info.
write_cache_Defaults(file, info) == {file, Some(CachedAppVersionInfo(DefaultVersionInfo))}

\* write_cache: what the file can hold after the call.  File::create fails
\* and leaves the file alone, or the file is created and the copy fails, or
\* the info is written with the version of the build.
write_cache(file, info) == {file, <<Unparsable>>, Some(CachedAppVersionInfo(info))}

\* try_load_cache: the cached info, or <<>> for an error (no file, no
\* CachedAppVersionInfo in it, or one that another version wrote).
try_load_cache(file) ==
    IF file = <<>> \/ file = <<Unparsable>> THEN <<>>
    ELSE IF file[1].cached_from_version = build.version
    THEN Some(file[1].version_info)
    ELSE <<>>

\* load_cache
load_cache(file) ==
    IF try_load_cache(file) # <<>> THEN try_load_cache(file)[1]
    ELSE DefaultVersionInfo

\* VersionUpdater::new has returned for some build and some setting, with
\* no cache on disk; run has not been polled yet.
UpdaterInit ==
    /\ build \in Builds
    /\ updPc = "start"
    /\ control_rx = <<>>
    /\ tx_open = TRUE
    /\ update_sender_closed = FALSE
    /\ show_beta_releases \in BOOLEAN
    /\ check_delay = <<>>
    /\ next_update_time = 0
    /\ version_check = NoDownload
    /\ last_app_version_info = DefaultVersionInfo
    /\ published = {}
    /\ cache_file = <<>>
    /\ launched = FALSE
    /\ sinceCompletion = <<>>

\* The updater of a stable build that never runs.
UpdaterIdle ==
    /\ UpdaterInit
    /\ build = [version |-> "2020.4", beta |-> FALSE]
    /\ show_beta_releases = FALSE

\* Variant of next_delay: a timer that never fires.
next_delay_Terminated == <<>>

\* tokio::time::delay_for(UPDATE_CHECK_INTERVAL).fuse()
next_delay == <<UPDATE_CHECK_INTERVAL>>

\* The time left of a timer after the clock advanced by dt.
After(timer, dt) ==
    IF timer = <<>> THEN <<>>
    ELSE IF timer[1] > dt THEN <<timer[1] - dt>>
    ELSE <<0>>

\* The time that has passed since an instant, dt later; the model stops
\* counting above UPDATE_INTERVAL + UPDATE_CHECK_INTERVAL.
Elapsed(since, dt) ==
    IF since = <<>> THEN <<>>
    ELSE IF since[1] + dt > UPDATE_INTERVAL + UPDATE_CHECK_INTERVAL
    THEN <<UPDATE_INTERVAL + UPDATE_CHECK_INTERVAL>>
    ELSE <<since[1] + dt>>

\* The clock advances by UPDATE_CHECK_INTERVAL: the timers come closer and
\* next_update_time moves towards the past, where the model stops counting
\* one step behind the present.
Tick ==
    /\ updPc # "returned"
    /\ check_delay' = After(check_delay, UPDATE_CHECK_INTERVAL)
    /\ next_update_time' =
          IF next_update_time - UPDATE_CHECK_INTERVAL < -UPDATE_CHECK_INTERVAL
          THEN -UPDATE_CHECK_INTERVAL
          ELSE next_update_time - UPDATE_CHECK_INTERVAL
    /\ version_check' =
          [version_check EXCEPT !.wait =
              IF @ > UPDATE_CHECK_INTERVAL THEN @ - UPDATE_CHECK_INTERVAL ELSE 0]
    /\ sinceCompletion' = Elapsed(sinceCompletion, UPDATE_CHECK_INTERVAL)
    /\ UNCHANGED <<build, updPc, control_rx, tx_open, update_sender_closed,
                   show_beta_releases, last_app_version_info, published, cache_file,
                   launched>>
    /\ UNCHANGED nonUpdVars

\* VersionUpdaterHandle::set_show_beta_releases: the value is queued when
\* the channel has room.
SetShowBetaReleases ==
    /\ tx_open
    /\ updPc # "returned"
    /\ Len(control_rx) < MaxQueued
    /\ \E b \in BOOLEAN : control_rx' = Append(control_rx, b)
    /\ UNCHANGED <<build, updPc, tx_open, update_sender_closed, show_beta_releases,
                   check_delay, next_update_time, version_check,
                   last_app_version_info, published, cache_file, launched,
                   sinceCompletion>>
    /\ UNCHANGED nonUpdVars

\* Every VersionUpdaterHandle is dropped: the control channel closes.
DropHandle ==
    /\ tx_open
    /\ tx_open' = FALSE
    /\ UNCHANGED <<build, updPc, control_rx, update_sender_closed, show_beta_releases,
                   check_delay, next_update_time, version_check,
                   last_app_version_info, published, cache_file, launched,
                   sinceCompletion>>
    /\ UNCHANGED nonUpdVars

\* The daemon drops the receiver of its events: update_sender is closed.
CloseEventReceiver ==
    /\ ~update_sender_closed
    /\ updPc # "returned"
    /\ update_sender_closed' = TRUE
    /\ UNCHANGED <<build, updPc, control_rx, tx_open, show_beta_releases,
                   check_delay, next_update_time, version_check,
                   last_app_version_info, published, cache_file, launched,
                   sinceCompletion>>
    /\ UNCHANGED nonUpdVars

\* run is polled for the first time: the timer is created, and a dev build
\* goes on to drain the control channel.
RunStart ==
    /\ updPc = "start"
    /\ check_delay' = next_delay
    /\ updPc' = IF IS_DEV_BUILD THEN "drain" ELSE "loop"
    /\ UNCHANGED <<build, control_rx, tx_open, update_sender_closed, show_beta_releases,
                   next_update_time, version_check, last_app_version_info, published,
                   cache_file, launched, sinceCompletion>>
    /\ UNCHANGED nonUpdVars

\* Dev build: `while let Some(_) = rx.next().await {}` takes a value.
DrainReceives ==
    /\ updPc = "drain"
    /\ control_rx # <<>>
    /\ control_rx' = Tail(control_rx)
    /\ UNCHANGED <<build, updPc, tx_open, update_sender_closed, show_beta_releases,
                   check_delay, next_update_time, version_check,
                   last_app_version_info, published, cache_file, launched,
                   sinceCompletion>>
    /\ UNCHANGED nonUpdVars

\* Dev build: rx.next() yields None and run returns.
DrainClosed ==
    /\ updPc = "drain"
    /\ control_rx = <<>>
    /\ ~tx_open
    /\ updPc' = "returned"
    /\ UNCHANGED <<build, control_rx, tx_open, update_sender_closed, show_beta_releases,
                   check_delay, next_update_time, version_check,
                   last_app_version_info, published, cache_file, launched,
                   sinceCompletion>>
    /\ UNCHANGED nonUpdVars

\* The daemon starts: load_cache gives the info VersionUpdater::new is
\* called with.
DaemonStarts ==
    /\ updPc = "boot"
    /\ last_app_version_info' = load_cache(cache_file)
    /\ updPc' = "start"
    /\ UNCHANGED <<build, control_rx, tx_open, update_sender_closed, show_beta_releases,
                   check_delay, next_update_time, version_check, published, cache_file,
                   launched, sinceCompletion>>
    /\ UNCHANGED nonUpdVars

\* After run has returned the daemon is started again, as the same build or
\* as another one; version-info.json stays.
DaemonRestarts ==
    /\ updPc = "returned"
    /\ build' \in Builds
    /\ updPc' = "boot"
    /\ control_rx' = <<>>
    /\ tx_open' = TRUE
    /\ update_sender_closed' = FALSE
    /\ check_delay' = <<>>
    /\ next_update_time' = 0
    /\ version_check' = NoDownload
    /\ published' = {}
    /\ launched' = FALSE
    /\ sinceCompletion' = <<>>
    /\ UNCHANGED <<show_beta_releases, last_app_version_info, cache_file>>
    /\ UNCHANGED nonUpdVars

\* select!, first branch: a new value of show_beta_releases.
LoopReceives ==
    /\ updPc = "loop"
    /\ control_rx # <<>>
    /\ show_beta_releases' = Head(control_rx)
    /\ control_rx' = Tail(control_rx)
    /\ UNCHANGED <<build, updPc, tx_open, update_sender_closed, check_delay,
                   next_update_time, version_check, last_app_version_info, published,
                   cache_file, launched, sinceCompletion>>
    /\ UNCHANGED nonUpdVars

\* select!, first branch: rx.next() yields None, time to shut down.
LoopClosed ==
    /\ updPc = "loop"
    /\ control_rx = <<>>
    /\ ~tx_open
    /\ updPc' = "returned"
    /\ UNCHANGED <<build, control_rx, tx_open, update_sender_closed, show_beta_releases,
                   check_delay, next_update_time, version_check,
                   last_app_version_info, published, cache_file, launched,
                   sinceCompletion>>
    /\ UNCHANGED nonUpdVars

\* Variant of IsDue: the update is due at next_update_time already.
IsDue_AtTheInstant(until) == until <= 0

\* Instant::now() > self.next_update_time, on the time left until
\* next_update_time.
IsDue(until) == until < 0

\* select!, second branch: the timer fired.  The updater returns when the
\* event sender is closed, starts a download when the update is due, and
\* sets the timer again otherwise.
LoopTimer ==
    /\ updPc = "loop"
    /\ check_delay = <<0>>
    /\ IF update_sender_closed
       THEN /\ updPc' = "returned"
            /\ check_delay' = <<>>
            /\ UNCHANGED <<version_check, launched>>
       ELSE IF IsDue(next_update_time)
       THEN /\ version_check' = [state |-> "downloading", wait |-> 0, response |-> <<>>]
            /\ launched' = TRUE
            /\ check_delay' = <<>>
            /\ UNCHANGED updPc
       ELSE /\ check_delay' = next_delay
            /\ UNCHANGED <<updPc, version_check, launched>>
    /\ UNCHANGED <<build, control_rx, tx_open, update_sender_closed, show_beta_releases,
                   next_update_time, last_app_version_info, published, cache_file,
                   sinceCompletion>>
    /\ UNCHANGED nonUpdVars

\* The request of the download is answered: the retry future is ready with
\* the answer.
DownloadSucceeds ==
    /\ updPc = "loop"
    /\ version_check.state = "downloading"
    /\ \E r \in ApiResponses :
          version_check' = [state |-> "ready", wait |-> 0, response |-> Some(r)]
    /\ UNCHANGED <<build, updPc, control_rx, tx_open, update_sender_closed,
                   show_beta_releases, check_delay, next_update_time,
                   last_app_version_info, published, cache_file, launched,
                   sinceCompletion>>
    /\ UNCHANGED nonUpdVars

\* The request of the download fails or times out: the retry future waits
\* for UPDATE_INTERVAL_ERROR.
DownloadFails ==
    /\ updPc = "loop"
    /\ version_check.state = "downloading"
    /\ version_check' = [state |-> "backoff", wait |-> UPDATE_INTERVAL_ERROR,
                         response |-> <<>>]
    /\ UNCHANGED <<build, updPc, control_rx, tx_open, update_sender_closed,
                   show_beta_releases, check_delay, next_update_time,
                   last_app_version_info, published, cache_file, launched,
                   sinceCompletion>>
    /\ UNCHANGED nonUpdVars

\* The wait of the retry future is over: the request is made again.
DownloadRetries ==
    /\ updPc = "loop"
    /\ version_check.state = "backoff"
    /\ version_check.wait = 0
    /\ version_check' = [state |-> "downloading", wait |-> 0, response |-> <<>>]
    /\ UNCHANGED <<build, updPc, control_rx, tx_open, update_sender_closed,
                   show_beta_releases, check_delay, next_update_time,
                   last_app_version_info, published, cache_file, launched,
                   sinceCompletion>>
    /\ UNCHANGED nonUpdVars

\* select!, third branch: the download completed.  The updater returns when
\* the event sender is closed, or closes before the new info is sent;
\* otherwise next_update_time is set, the info is sent and kept, the cache
\* is written (which can fail), and the timer is set again.
LoopVersionCheck ==
    /\ updPc = "loop"
    /\ version_check.state = "ready"
    /\ version_check' = NoDownload
    /\ IF update_sender_closed
       THEN /\ updPc' = "returned"
            /\ UNCHANGED <<update_sender_closed, check_delay, next_update_time,
                           last_app_version_info, published, cache_file,
                           sinceCompletion>>
       ELSE /\ next_update_time' = UPDATE_INTERVAL
            /\ sinceCompletion' = <<0>>
            /\ \E closes \in BOOLEAN :
                  IF closes
                  THEN /\ update_sender_closed' = TRUE
                       /\ updPc' = "returned"
                       /\ UNCHANGED <<check_delay, last_app_version_info, published,
                                      cache_file>>
                  ELSE /\ published' =
                             published \cup
                                {response_to_version_info(version_check.response[1])}
                       /\ last_app_version_info' =
                             response_to_version_info(version_check.response[1])
                       /\ cache_file' \in write_cache(cache_file, last_app_version_info')
                       /\ check_delay' = next_delay
                       /\ UNCHANGED <<updPc, update_sender_closed>>
    /\ UNCHANGED <<build, control_rx, tx_open, show_beta_releases, launched>>
    /\ UNCHANGED nonUpdVars

\* ------------------------------------------------------------------------
\* Specifications
\* ------------------------------------------------------------------------

\* One tunnel session before new_internal is called, without a proxy.
TunnelIdle ==
    /\ TunnelInit
    /\ params = [proxy |-> FALSE, proxyAuth |-> FALSE]

\* A tunnel session is about to start; no route manager exists and the
\* service main has not been entered.
Init == TunnelInit /\ RouteInit /\ ServiceInit /\ VersionFnIdle /\ UpdaterIdle

\* The session from new_internal to the return of wait, with the user, the
\* child, the event server and the proxy acting at any time.
Next ==
    \/ NewRuntimeFails
    \/ NewSpawnServer
    \/ ServerBind
    \/ ServerPostReady
    \/ NewRecvReady
    \/ NewRecvReadyFails
    \/ NewSpawnChild
    \/ NewSpawnChildFails
    \/ ChildExit
    \/ UserClose
    \/ ServerAbort
    \/ ServerTransportError
    \/ ChildWatcherWait
    \/ ChildWatcherWaitErr
    \/ ChildWatcherSend
    \/ ChildWatcherTrigger
    \/ IpcWatcherSend
    \/ IpcWatcherClose
    \/ InnerRecv
    \/ WaitNoProxy
    \/ WaitNoProxyResult
    \/ WaitNoProxyDropSelf
    \/ WaitWithProxy
    \/ TunnelThreadSend
    \/ TunnelThreadCloseProxy
    \/ TunnelThreadDropSelf
    \/ ProxyThreadSend
    \/ ProxyThreadCloseTunnel
    \/ WaitRecv

Spec == Init /\ [][Next]_vars

\* The same session with the tunnel plugin sending event RPCs, for sessions
\* that the user does not close and in which child.wait() does not fail.
NextEvents ==
    \/ NewRuntimeFails
    \/ NewSpawnServer
    \/ ServerBind
    \/ ServerPostReady
    \/ NewRecvReady
    \/ NewRecvReadyFails
    \/ NewSpawnChild
    \/ NewSpawnChildFails
    \/ ChildExit
    \/ ServerAbort
    \/ ServerTransportError
    \/ ChildWatcherWait
    \/ ChildWatcherSend
    \/ ChildWatcherTrigger
    \/ IpcWatcherSend
    \/ IpcWatcherClose
    \/ InnerRecv
    \/ WaitNoProxy
    \/ WaitNoProxyResult
    \/ WaitNoProxyDropSelf
    \/ WaitWithProxy
    \/ TunnelThreadSend
    \/ TunnelThreadCloseProxy
    \/ TunnelThreadDropSelf
    \/ ProxyThreadSend
    \/ ProxyThreadCloseTunnel
    \/ WaitRecv
    \/ PluginSendEvent
    \/ HandlerRecv
    \/ SinkUnlink
    \/ SinkForward
    \/ HandlerAck

SpecEvents == Init /\ [][NextEvents]_vars

\* One RouteManager from new to its drop, with the actor running beside
\* the calling thread and able to die at any time.
InitRoute == TunnelIdle /\ RouteInit /\ ServiceInit /\ VersionFnIdle /\ UpdaterIdle

NextRoute ==
    \/ New
    \/ AddRoutes
    \/ ClearRoutes
    \/ EnableExclusionsRoutes
    \/ DisableExclusionsRoutes
    \/ RouteExclusionsDns
    \/ Stop
    \/ DropManager
    \/ BlockOnReturns
    \/ ActorRepliedCommand
    \/ ActorSilentCommand
    \/ ActorShutdown
    \/ ActorCrash

SpecRoute == InitRoute /\ [][NextRoute]_vars

\* One execution of run_service, from the registration of the control
\* handler to the end of the process, with the OS delivering controls.
InitService == TunnelIdle /\ RouteInit /\ ServiceInit /\ VersionFnIdle /\ UpdaterIdle

NextService ==
    \/ RegisterHandler
    \/ RegisterHandlerFails
    \/ SetPendingStart
    \/ BuildRuntime
    \/ BuildRuntimeFails
    \/ CreateDaemon
    \/ CreateDaemonFails
    \/ StartEventMonitor
    \/ SetRunning
    \/ DaemonRunReturns
    \/ ComputeExitCode
    \/ SetStopped
    \/ ProcessExit
    \/ ControlHandler
    \/ MonitorRecvStop
    \/ MonitorReportStop
    \/ MonitorStoreClean
    \/ MonitorShutdown
    \/ MonitorRecvOther

SpecService == InitService /\ [][NextService]_vars

\* The hibernation detector of a running service, fed with any sequence of
\* logoff, suspend and resume events.
InitHibernation == TunnelIdle /\ RouteInit /\ ServiceRunning /\ VersionFnIdle /\ UpdaterIdle

NextHibernation ==
    \/ HibernationLogoff
    \/ HibernationSuspend
    \/ HibernationResume

SpecHibernation == InitHibernation /\ [][NextHibernation]_vars

\* One call of a function on app versions, on arguments of the sets above.
InitVersionFn == TunnelIdle /\ RouteInit /\ ServiceInit /\ VersionFnInit /\ UpdaterIdle

NextVersionFn ==
    \/ CallFromStr
    \/ CallToString
    \/ CallCmp
    \/ CallSuggestedUpgrade

SpecVersionFn == InitVersionFn /\ [][NextVersionFn]_vars

\* The version updater from VersionUpdater::new to the return of run, with
\* the daemon that sets show_beta_releases, drops the handle and closes its
\* event receiver, the version API and the clock.
InitUpdater == TunnelIdle /\ RouteInit /\ ServiceInit /\ VersionFnIdle /\ UpdaterInit

\* The steps of the updater task.
UpdaterStep ==
    \/ RunStart
    \/ DrainReceives
    \/ DrainClosed
    \/ LoopReceives
    \/ LoopClosed
    \/ LoopTimer
    \/ DownloadRetries
    \/ LoopVersionCheck

NextUpdater ==
    \/ UpdaterStep
    \/ DownloadSucceeds
    \/ DownloadFails
    \/ SetShowBetaReleases
    \/ DropHandle
    \/ CloseEventReceiver
    \/ Tick

SpecUpdater == InitUpdater /\ [][NextUpdater]_vars

\* The executor keeps polling run, and select! takes a branch that stays
\* ready; the clock keeps advancing; a request of the download ends within
\* DOWNLOAD_TIMEOUT, with an answer or with an error.
FairnessUpdater ==
    /\ WF_vars(RunStart)
    /\ WF_vars(DrainReceives)
    /\ WF_vars(DrainClosed)
    /\ WF_vars(LoopReceives)
    /\ WF_vars(LoopClosed)
    /\ WF_vars(LoopTimer)
    /\ WF_vars(DownloadRetries)
    /\ WF_vars(LoopVersionCheck)
    /\ WF_vars(DownloadSucceeds \/ DownloadFails)
    /\ WF_vars(Tick)

SpecUpdaterFair == SpecUpdater /\ FairnessUpdater

\* The daemon before load_cache, with no version-info.json or one that
\* cannot be read.
DaemonBoot ==
    /\ build \in Builds
    /\ updPc = "boot"
    /\ control_rx = <<>>
    /\ tx_open = TRUE
    /\ update_sender_closed = FALSE
    /\ show_beta_releases = FALSE
    /\ check_delay = <<>>
    /\ next_update_time = 0
    /\ version_check = NoDownload
    /\ last_app_version_info = DefaultVersionInfo
    /\ published = {}
    /\ cache_file \in {<<>>, <<Unparsable>>}
    /\ launched = FALSE
    /\ sinceCompletion = <<>>

\* The version cache over restarts of the daemon: load_cache on start, the
\* updater until its first answers, and the next start as any build.
InitCache == TunnelIdle /\ RouteInit /\ ServiceInit /\ VersionFnIdle /\ DaemonBoot

NextCache ==
    \/ DaemonStarts
    \/ RunStart
    \/ DrainClosed
    \/ LoopClosed
    \/ LoopTimer
    \/ DownloadSucceeds
    \/ LoopVersionCheck
    \/ DropHandle
    \/ Tick
    \/ DaemonRestarts

SpecCache == InitCache /\ [][NextCache]_vars

\* The steps each thread and task of the session takes on its own once it
\* can: the runtime schedules its tasks and the OS its threads.  Calls made
\* by the owner of the monitor (wait, close), the exit of the child or of the
\* proxy and failures of the platform are not forced to happen.
ServerTaskStep == ServerBind \/ ServerPostReady \/ ServerAbort
NewInternalStep == NewSpawnServer \/ NewRecvReady \/ NewSpawnChild
ChildWatcherStep == ChildWatcherWait \/ ChildWatcherSend \/ ChildWatcherTrigger
IpcWatcherStep == IpcWatcherSend \/ IpcWatcherClose
WaitStep == InnerRecv \/ WaitNoProxyResult \/ WaitNoProxyDropSelf \/ WaitRecv
TunnelThreadStep == TunnelThreadSend \/ TunnelThreadCloseProxy \/ TunnelThreadDropSelf

\* The positions of the threads and tasks: each of their steps changes one.
positions == <<pc, server, cw, iw, wt, tt, pt, rxRead, rxwRead>>

\* The session of Spec, with every thread and task making progress.
SpecFair ==
    /\ Init
    /\ [][Next]_vars
    /\ WF_positions(ServerTaskStep)
    /\ WF_positions(NewInternalStep)
    /\ WF_positions(ChildWatcherStep)
    /\ WF_positions(IpcWatcherStep)
    /\ WF_positions(WaitStep)
    /\ WF_positions(TunnelThreadStep)
    /\ WF_positions(ProxyThreadCloseTunnel)

\* A child that kill() was called on exits.
KilledChildExits ==
    /\ killCount >= 1
    /\ ChildExit

\* The session of SpecFair in which kill() makes the child exit.
SpecFairKill == SpecFair /\ WF_child(KilledChildExits)

\* ------------------------------------------------------------------------
\* Properties
\* ------------------------------------------------------------------------

Tags(q) == { q[i].tag : i \in DOMAIN q }

\* C1: wait_tunnel maps the first watcher result to its return value:
\* Child(Ok, closed) -> Ok; Child(Ok(success), not closed) -> Ok;
\* Child(Ok(failure), not closed) -> the postmortem error, ChildProcessDied
\* when no Windows TAP pattern matches; Child(Err) -> ChildProcessError
\* ("Error when waiting"); EventDispatcher -> EventDispatcherExited; and
\* nothing else is ever returned.
C1_WaitTunnelMapping ==
    wt = "done" =>
        LET first == rx[1]
            isChild == first.tag = "Child"
            exited == isChild /\ first.res \in {"success", "failure"}
        IN  /\ (exited /\ first.closed) => tunnelResult = "Ok"
            /\ (exited /\ ~first.closed /\ first.res = "success") => tunnelResult = "Ok"
            /\ (exited /\ ~first.closed /\ first.res = "failure") =>
                  /\ tunnelResult \in {"ChildProcessDied", "MissingTapAdapter",
                                       "DisabledTapAdapter"}
                  /\ (~pmInput.windows \/ pmInput.log \in {"unreadable", "no_pattern"})
                        => tunnelResult = "ChildProcessDied"
            /\ (isChild /\ first.res = "io_error") =>
                  tunnelResult = "ChildProcessError_ErrorWhenWaiting"
            /\ first.tag = "EventDispatcher" => tunnelResult = "EventDispatcherExited"
            /\ tunnelResult \in {"Ok", "ChildProcessDied", "MissingTapAdapter",
                                 "DisabledTapAdapter",
                                 "ChildProcessError_ErrorWhenWaiting",
                                 "EventDispatcherExited"}

\* C1 witness: the child failed, the closed snapshot was true, wait_tunnel
\* returned Ok.
C1_Witness ==
    /\ wt = "done"
    /\ rx[1].tag = "Child"
    /\ rx[1].res = "failure"
    /\ rx[1].closed
    /\ tunnelResult = "Ok"

\* C2: in inner_wait_tunnel each watcher sends exactly one result, the value
\* returned is the one sent first, the second one is received too, and
\* inner_wait_tunnel does not return before both watchers have sent; the
\* outcome of the session, once produced, never changes.
C2_FirstOfTwoWatchers ==
    /\ [](/\ Len(rx) <= 2
          /\ Cardinality(Tags(rx)) = Len(rx)
          /\ (cw \in {"trigger", "done"} => "Child" \in Tags(rx))
          /\ (iw \in {"close", "done"} => "EventDispatcher" \in Tags(rx))
          /\ (wt = "done" =>
                /\ Tags(rx) = {"Child", "EventDispatcher"}
                /\ rxRead = 2
                /\ innerResult = rx[1])
          /\ (wt # "done" => innerResult = NoMessage /\ tunnelResult = None))
    /\ [][wt = "done" => (wt' = "done" /\ innerResult' = innerResult
                          /\ tunnelResult' = tunnelResult)]_vars

\* C2 witness: the event dispatcher result was sent first and returned, the
\* child's result was received second and discarded.
C2_Witness ==
    /\ wt = "done"
    /\ rx[1].tag = "EventDispatcher"
    /\ rx[2].tag = "Child"
    /\ innerResult.tag = "EventDispatcher"

\* C3: over all close() calls of one session (user, IPC watcher, proxy
\* watcher) child.kill() is invoked at most once, by the call that flips
\* closed from false to true; later calls do not kill; closed never goes back
\* to false.
C3_KillAtMostOnce ==
    /\ [](killCount <= 1)
    /\ [][closed => (closed' /\ killCount' = killCount)]_vars
    /\ [][(~closed /\ closed') => killCount' = killCount + 1]_vars

\* C3 witness: the user, the IPC watcher and the proxy watcher have all
\* called close, and the child was killed once.
C3_Witness ==
    /\ closeCalls["user"] >= 1
    /\ closeCalls["ipc"] = 1
    /\ closeCalls["proxy"] = 1
    /\ killCount = 1

\* C4: whatever the execution of wait (with or without a proxy, with or
\* without a RouteUp event), both credentials files have been removed from
\* disk when wait returns to its caller.
C4_FilesRemovedBeforeWaitReturns ==
    pc = "returned" => (~userPassFile /\ ~proxyAuthFile)

Count(q, x) == Cardinality({ i \in DOMAIN q : q[i] = x })

C6_TunnelResultAlwaysWins ==
    (pc = "returned" /\ params.proxy) => waitResult = tunnelResult

\* C6: with a proxy, wait returns after both watchers have delivered, and it
\* returns the tunnel's result exactly when the tunnel's result arrived
\* first; when the proxy's result arrived first the tunnel's result is
\* discarded.
C6_FirstArrivedWins ==
    (pc = "returned" /\ params.proxy) =>
        /\ Tags(rxw) = {"Tunnel", "Proxy"}
        /\ rxwRead = 2
        /\ (rxw[1].tag = "Tunnel" <=> waitResult = tunnelResult)

\* C6 witness: the proxy's result arrived first, the tunnel ended with Ok,
\* and wait returned.
C6_Witness ==
    /\ pc = "returned"
    /\ params.proxy
    /\ rxw[1].tag = "Proxy"
    /\ tunnelResult = "Ok"

\* C7: with a proxy, when the proxy watcher's result reaches wait first, wait
\* returns ProxyExited("No details") for a proper shutdown, ProxyExited(details)
\* for an unexpected exit, MonitorProxyError for a wait error, never Ok; and
\* each watcher calls close on the other side only after it has sent its
\* result.
C7_ProxyFirstIsError ==
    /\ (pc = "returned" /\ params.proxy /\ rxw[1].tag = "Proxy") =>
          /\ rxw[1].res = "ProperShutdown" => waitResult = "ProxyExited_NoDetails"
          /\ rxw[1].res = "UnexpectedExit" => waitResult = "ProxyExited_Details"
          /\ rxw[1].res = "io_error" => waitResult = "MonitorProxyError"
          /\ waitResult # "Ok"
    /\ closeCalls["proxy"] <= 1
    /\ proxyCloseCalls <= 1
    /\ closeCalls["proxy"] = 1 => "Proxy" \in Tags(rxw)
    /\ proxyCloseCalls = 1 => "Tunnel" \in Tags(rxw)
    /\ pt = "done" => closeCalls["proxy"] = 1
    /\ tt \in {"drop_self", "done"} => proxyCloseCalls = 1

\* C7 witness: the proxy shut down properly before the tunnel ended, both
\* sides were closed by the other's watcher, wait returned ProxyExited.
C7_Witness ==
    /\ pc = "returned"
    /\ params.proxy
    /\ rxw[1] = [tag |-> "Proxy", res |-> "ProperShutdown"]
    /\ waitResult = "ProxyExited_NoDetails"
    /\ closeCalls["proxy"] = 1
    /\ proxyCloseCalls = 1

\* C8: the child is spawned only after the event server has bound and posted
\* ready; ready is posted at most once and only after a successful bind; when
\* the bind fails no ready is posted, new_internal returns
\* EventDispatcherError and the child is never spawned.
C8_ReadyBeforeSpawn ==
    /\ readySent <= 1
    /\ readySent = 1 => server \in {"serving", "done_ok", "err_tonic", "cancelled"}
    /\ (pc = "spawn_child" \/ child # None) => readySent = 1
    /\ server = "err_start" =>
          /\ readySent = 0
          /\ child = None
          /\ pc \in {"recv_ready", "failed"}
          /\ pc = "failed" => newResult = "EventDispatcherError"
    /\ newResult = "EventDispatcherError" => (server = "err_start" /\ child = None)

\* C8 witness: the bind failed and new_internal returned EventDispatcherError.
C8_Witness ==
    /\ server = "err_start"
    /\ pc = "failed"
    /\ newResult = "EventDispatcherError"

\* C9: when spawning the child fails after the event server is ready,
\* new_internal returns ChildProcessError("Failed to start"), no monitor
\* exists (no child, nobody waits), and the event server task is not running
\* once new_internal has returned.
C9_FailedStartStopsServer ==
    /\ (pc = "failed" /\ readySent = 1) => newResult = "ChildProcessError_FailedToStart"
    /\ newResult = "ChildProcessError_FailedToStart" =>
          /\ pc = "failed"
          /\ readySent = 1
          /\ child = None
          /\ wt = "idle" /\ cw = "idle" /\ iw = "idle"
          /\ server \in ServerDone

\* C9 witness: the server was serving when the spawn failed and was stopped.
C9_Witness ==
    /\ newResult = "ChildProcessError_FailedToStart"
    /\ server = "cancelled"

IsEventType(code) == EventTypeTryFrom(code) # None

\* The sink invocations that the requests taken so far call for.
ExpectedSinkLog ==
    LET known == SelectSeq(arrived, IsEventType)
    IN  [i \in 1..Len(known) |-> EventTypeTryFrom(known[i])]

\* C10: for every event RPC, a known code makes the handler invoke the sink
\* exactly once with that kind and the request's env before the RPC is
\* acknowledged, sink invocations follow the arrival order, and an unknown
\* code is answered InvalidArgument without invoking the sink.
C10_OneSinkCallPerEvent ==
    /\ [](/\ sinkLog = IF hpc = "sink"
                       THEN SubSeq(ExpectedSinkLog, 1, Len(ExpectedSinkLog) - 1)
                       ELSE ExpectedSinkLog
          /\ Len(replies) = Len(arrived) - (IF hpc = "idle" THEN 0 ELSE 1)
          /\ \A i \in DOMAIN replies :
                replies[i] = IF IsEventType(arrived[i]) THEN "Ok" ELSE "InvalidArgument"
          /\ (hpc \in {"forward", "ack"} =>
                /\ req.code = arrived[Len(arrived)]
                /\ sinkArg = [kind |-> EventTypeTryFrom(req.code), env |-> req.env])
          /\ (hpc \in {"idle", "sink"} => sinkArg = None))
    /\ [][arrived' # arrived =>
             /\ rpcIn # <<>>
             /\ arrived' = Append(arrived, Head(rpcIn).code)
             /\ rpcIn' = Tail(rpcIn)
             /\ (hpc' = "sink" => req' = Head(rpcIn))]_vars

\* C10 witness: an unknown code was answered InvalidArgument, then a RouteUp
\* reached the sink once and was acknowledged.
C10_Witness ==
    /\ arrived = <<99, 2>>
    /\ replies = <<"InvalidArgument", "Ok">>
    /\ sinkLog = <<"RouteUp">>

\* C11 (as stated): the event server task returns after the abort trigger
\* fired, after its peer disconnected, or after a transport error; a peer
\* disconnect alone makes the server task complete.
C11_PeerDisconnectCompletes ==
    (PeerDisconnected /\ server = "serving") ~> (server \in ServerDone)

\* C11 (amended): a serving event server task completes only with Ok after
\* the abort trigger fired, with a transport error, or by being cancelled
\* with its runtime, and once the abort trigger has fired it does complete;
\* a peer disconnect alone leaves it serving.
C11_ReturnsOnAbortOrError ==
    /\ [][ (server = "serving" /\ server' # "serving")
            => \/ server' = "done_ok" /\ abortTriggered
               \/ server' = "err_tonic"
               \/ server' = "cancelled" ]_server
    /\ (abortTriggered ~> (server \in ServerDone))

\* The peer is gone, nothing fired the abort trigger, the server still serves.
C11_Witness ==
    /\ PeerDisconnected
    /\ ~abortTriggered
    /\ server = "serving"
    /\ pc = "monitor"

\* The ids of the commands in a queue or log, in order.
Ids(q) == [i \in DOMAIN q |-> q[i].id]

\* The sends that went through, in order.
OkSends == SelectSeq(sendLog, LAMBDA e : e.ok)

\* The positions in `returned` of the calls of stop, Drop included.
StopReturns == { i \in DOMAIN returned : returned[i].op \in {"stop", "drop"} }

\* The ids of the calls of stop made so far, the one in progress included.
StopIds ==
    { returned[i].id : i \in StopReturns }
        \cup (IF call.op \in {"stop", "drop"} THEN {call.id} ELSE {})

\* The sends of a Shutdown command.
ShutdownSends == { i \in DOMAIN sendLog : sendLog[i].cmd = "Shutdown" }

\* C12: stop is idempotent. The first call of stop (Drop included) makes
\* exactly one send of Shutdown, every later call makes none and returns
\* without blocking, and every API call made after a call of stop returns
\* RouteManagerDown without a send.
C12_StopIdempotent ==
    /\ Cardinality(ShutdownSends) <= 1
    /\ StopIds # {} =>
          \E i \in ShutdownSends :
             \A id \in StopIds : sendLog[i].id <= id
    /\ \A i \in DOMAIN returned :
          (\E id \in StopIds : id < returned[i].id) =>
             /\ \A j \in DOMAIN sendLog : sendLog[j].id # returned[i].id
             /\ returned[i].op \in ReplyOps \cup SilentOps =>
                   returned[i].res = "RouteManagerDown"
             /\ returned[i].op \in {"stop", "drop"} => returned[i].res = "unit"
    /\ apiPc = "blocked" =>
          \A id \in StopIds : call.id <= id

\* Two calls of stop have returned, then add_routes was refused.
C12_Witness ==
    \E i, j, k \in DOMAIN returned :
       /\ i < j /\ j < k
       /\ returned[i].op = "stop"
       /\ returned[j].op \in {"stop", "drop"}
       /\ returned[k].op = "add_routes"
       /\ returned[k].res = "RouteManagerDown"

\* C13: a call of stop (Drop included) whose Shutdown was sent to a live
\* actor returns only after the actor has taken Shutdown and acknowledged
\* it, or has died and dropped the reply sender; dropping a manager that
\* was never stopped sends Shutdown like stop does.
C13_StopWaitsForAck ==
    /\ \A i \in StopReturns :
          (\E j \in DOMAIN sendLog : sendLog[j].id = returned[i].id /\ sendLog[j].ok) =>
             \/ actor = "stopped" /\ \E k \in DOMAIN processed :
                                        /\ processed[k].id = returned[i].id
                                        /\ processed[k].cmd = "Shutdown"
             \/ actor = "crashed"
    /\ \A i \in StopReturns :
          (returned[i].op = "drop" /\ \A k \in StopReturns : k >= i) =>
             \E j \in ShutdownSends : sendLog[j].id = returned[i].id
    /\ manager = "dropped" => ~manage_tx

\* A manager that was never stopped has been dropped: Drop sent Shutdown,
\* the actor acknowledged it and only then the drop returned.
C13_Witness ==
    /\ manager = "dropped"
    /\ actor = "stopped"
    /\ Cardinality(StopReturns) = 1
    /\ Len(processed) >= 2
    /\ processed[Len(processed)].cmd = "Shutdown"

\* C14: add_routes, enable_exclusions_routes and route_exclusions_dns never
\* return Ok for a command the actor did not execute: when the actor has
\* died, before or after the command was queued, they return
\* RouteManagerDown.
C14_CrashGivesRouteManagerDown ==
    \A i \in DOMAIN returned :
       (returned[i].op \in ReplyOps /\ returned[i].res = "Ok") =>
          \E k \in DOMAIN processed : processed[k].id = returned[i].id

\* The position in `returned` of the last call that cleared the routes, 0
\* when there is none.
LastClear ==
    LET cs == { i \in DOMAIN returned :
                  returned[i].op = "clear_routes" /\ returned[i].res = "Ok" }
    IN  IF cs = {} THEN 0 ELSE CHOOSE i \in cs : \A j \in cs : j <= i

\* The sets S0..Sn that new and add_routes have applied since position `from`.
AppliedSets(from) ==
    { returned[i].routes : i \in { j \in DOMAIN returned :
                                      /\ j > from
                                      /\ returned[j].op \in {"new", "add_routes"}
                                      /\ returned[j].res = "Ok" } }

\* C15: on a live manager whose actor has processed every command sent,
\* the applied set is empty when clear_routes was the last call that
\* changed the routes; before any clear_routes it is made of routes of
\* S0..Sn only, it covers every destination of S0..Sn and it has at most
\* one route per destination; and the step in which the actor processes
\* ClearRoutes leaves no applied route.
C15_ClearRevokesAll ==
    /\ [](  (actor = "running" /\ queue = <<>> /\ apiPc = "idle" /\ StopIds = {}) =>
            /\ applied \subseteq UNION AppliedSets(LastClear)
            /\ \A r \in UNION AppliedSets(LastClear) : \E a \in applied : a.dest = r.dest
            /\ \A a, b \in applied : a.dest = b.dest => a = b
            /\ AppliedSets(LastClear) = {} => applied = {} )
    /\ [][ (actor = "running" /\ queue # <<>> /\ Head(queue).cmd = "ClearRoutes"
              /\ processed' # processed)
            => applied' = {} ]_vars

\* new and two add_routes were followed by clear_routes, the actor has
\* processed ClearRoutes and is alive.
C15_Witness ==
    /\ actor = "running"
    /\ queue = <<>>
    /\ Len(returned) = 4
    /\ returned[1].op = "new"
    /\ returned[2].op = "add_routes" /\ returned[2].res = "Ok"
    /\ returned[3].op = "add_routes" /\ returned[3].res = "Ok"
    /\ returned[2].routes # returned[3].routes
    /\ returned[4].op = "clear_routes" /\ returned[4].res = "Ok"
    /\ applied = {}

\* C16: the actor takes the commands in the order the API calls sent
\* them; while add_routes(S) waits with the actor's Ok in its reply channel
\* the routes S are applied, whatever was sent before; and Shutdown is the
\* last command the actor takes, after every command sent before stop.
C16_CommandsInCallOrder ==
    /\ Len(processed) <= Len(OkSends)
    /\ \A i \in DOMAIN processed : processed[i].id = OkSends[i].id
    /\ \A i, j \in DOMAIN processed : i < j => processed[i].id < processed[j].id
    /\ actor = "running" => Ids(OkSends) = Ids(processed) \o Ids(queue)
    /\ (apiPc = "blocked" /\ call.op = "add_routes" /\ reply = "ok") =>
          call.routes \subseteq applied
    /\ \A i \in DOMAIN processed :
          processed[i].cmd = "Shutdown" =>
             /\ i = Len(processed)
             /\ Len(processed) = Len(OkSends)

\* clear_routes returned while ClearRoutes was still queued, add_routes(S)
\* was called next, and the actor has answered it with Ok after ClearRoutes.
C16_Witness ==
    /\ apiPc = "blocked"
    /\ call.op = "add_routes"
    /\ reply = "ok"
    /\ Len(processed) >= 2
    /\ processed[Len(processed) - 1].cmd = "ClearRoutes"
    /\ processed[Len(processed)].id = call.id
    /\ applied = call.routes

\* The positions in `reports` of the reports of a state.
ReportsOf(state) == { i \in DOMAIN reports : reports[i].state = state }

\* C17 (as stated): Running is never reported before StartPending,
\* StopPending never before Running, and Stopped is preceded by StopPending
\* whenever Running was reported.
C17_StoppedAfterStopPending ==
    /\ \A i \in ReportsOf("Running") : \E j \in ReportsOf("StartPending") : j < i
    /\ \A i \in ReportsOf("StopPending") : \E j \in ReportsOf("Running") : j < i
    /\ \A i \in ReportsOf("Stopped") :
          (\E j \in ReportsOf("Running") : j < i) =>
             \E k \in ReportsOf("StopPending") : k < i

\* C17 (amended): the first report is StartPending; Running is reported at
\* most once, after StartPending; every StopPending comes after Running;
\* Stopped is reported at most once, after StartPending and after Running
\* when Running is reported at all; a Stopped with exit code 0 is preceded
\* by StopPending, while a Stopped with a service-specific code can follow
\* Running directly.
C17_StatusOrder ==
    /\ reports # <<>> => reports[1].state = "StartPending"
    /\ Cardinality(ReportsOf("StartPending")) <= 1
    /\ Cardinality(ReportsOf("Running")) <= 1
    /\ Cardinality(ReportsOf("Stopped")) <= 1
    /\ \A i \in ReportsOf("StopPending") : \E j \in ReportsOf("Running") : j < i
    /\ \A i \in ReportsOf("Stopped") : \A j \in ReportsOf("Running") : j < i
    /\ \A i \in ReportsOf("Stopped") :
          reports[i].exit_code = "NO_ERROR" =>
             \E k \in ReportsOf("StopPending") : k < i

\* Running was reported and the main loop returned without any stop
\* control: Stopped follows Running directly.
C17_Witness ==
    /\ Len(reports) = 3
    /\ reports[1].state = "StartPending"
    /\ reports[2].state = "Running"
    /\ reports[3].state = "Stopped"
    /\ reports[3].exit_code = "ServiceSpecific(1)"

\* The positions in `reports` of the reports of a pending state.
PendingReports == { i \in DOMAIN reports : reports[i].state \in PendingStates }

\* C18: the checkpoints of the pending-state reports, in the order the
\* reports are emitted by the main thread and the event monitor, are 1, 2,
\* 3, ...; every other report carries checkpoint 0; and the shared counter
\* is 1 plus the number of pending-state reports made, plus one for a
\* report whose checkpoint the monitor has taken and not yet emitted.
C18_CheckpointsIncrease ==
    /\ \A i \in PendingReports :
          reports[i].checkpoint = Cardinality({ j \in PendingReports : j <= i })
    /\ \A i \in DOMAIN reports \ PendingReports : reports[i].checkpoint = 0
    /\ checkpoint_counter =
          1 + Cardinality(PendingReports) + (IF monCheckpoint # 0 THEN 1 ELSE 0)

\* StartPending by the main thread and two StopPending by the event monitor
\* were reported, with Running and Stopped in between.
C18_Witness ==
    /\ Cardinality(ReportsOf("StopPending")) = 2
    /\ ReportsOf("Running") # {}
    /\ \E i \in ReportsOf("Stopped") : \E j \in ReportsOf("StopPending") : i < j
    /\ checkpoint_counter = 4

\* A Stop or Preshutdown control has been delivered by the OS.
StopDelivered ==
    \E i \in DOMAIN handlerLog : handlerLog[i].control \in {"Stop", "Preshutdown"}

\* C19 (as stated): in every interleaving, exit code 0 is reported with
\* Stopped only when the main loop returned because of an OS Stop or
\* Preshutdown; a main loop that returned for any other reason is reported
\* with ServiceSpecific(1).
C19_ZeroOnlyForOsShutdown ==
    \A i \in ReportsOf("Stopped") :
       reports[i].exit_code = "NO_ERROR" <=> loopCause = "os_shutdown"

\* C19 (amended): exit code 0 is reported only when the main loop returned
\* Ok and, before the main thread read clean_shutdown, the event monitor
\* had received a Stop or Preshutdown control, reported StopPending and set
\* the flag; a main loop that returned an error, or one that returned while
\* no Stop or Preshutdown control had been delivered, is reported with
\* ServiceSpecific(1). The main loop need not have returned because of
\* that control.
C19_ZeroOnlyAfterOsStop ==
    \A i \in ReportsOf("Stopped") :
       /\ reports[i].exit_code = "NO_ERROR" =>
             /\ daemonResult = "Ok"
             /\ StopDelivered
             /\ clean_shutdown
             /\ \E k \in ReportsOf("StopPending") : k < i
       /\ (daemonResult # "Ok" \/ ~StopDelivered) =>
             reports[i].exit_code = "ServiceSpecific(1)"
       /\ loopCause = "os_shutdown" => reports[i].exit_code = "NO_ERROR"

\* The main loop returned Ok before the monitor invoked the shutdown
\* handle, the monitor had already set clean_shutdown: exit code 0.
C19_Witness ==
    /\ loopCause = "other_shutdown"
    /\ \E i \in ReportsOf("Stopped") : reports[i].exit_code = "NO_ERROR"

\* C20: the exit code reported with Stopped is 0 exactly when the main loop
\* returned Ok and clean_shutdown was read as true; it is ServiceSpecific(1)
\* when the main loop or the creation of the daemon returned an error, when
\* clean_shutdown was read as false, and when the runtime was not built.
C20_ExitCodePolicy ==
    \A i \in ReportsOf("Stopped") :
       /\ reports[i].exit_code \in {"NO_ERROR", "ServiceSpecific(1)"}
       /\ reports[i].exit_code = "NO_ERROR" <=>
             (daemonResult = "Ok" /\ cleanRead = <<TRUE>>)
       /\ daemonResult = None => reports[i].exit_code = "ServiceSpecific(1)"

\* A main loop that returned Ok while clean_shutdown was still false has
\* been reported with ServiceSpecific(1), although a stop control was
\* delivered.
C20_Witness ==
    /\ daemonResult = "Ok"
    /\ cleanRead = <<FALSE>>
    /\ StopDelivered
    /\ \E i \in ReportsOf("Stopped") : reports[i].exit_code = "ServiceSpecific(1)"

\* The last status handed to the OS is StopPending with a wait hint of 10s.
LastReportIsStopPending(r) ==
    /\ r # <<>>
    /\ r[Len(r)].state = "StopPending"
    /\ r[Len(r)].wait_hint = 10

\* What a step of the event monitor that handles a Stop or Preshutdown
\* control may do, by the position the monitor leaves.
MonitorStopStep ==
    /\ (monPc = "recv" /\ monPc' \notin {"recv", "killed"}) =>
          /\ IsShutdownControl(Head(event_rx).control)
          /\ monPc' = "report_stop"
    /\ (monPc = "report_stop" /\ monPc' \notin {"report_stop", "killed"}) =>
          /\ monPc' = "store"
          /\ Len(reports') = Len(reports) + 1
          /\ LastReportIsStopPending(reports')
          /\ shutdownCalled' = shutdownCalled
    /\ (monPc = "store" /\ monPc' \notin {"store", "killed"}) =>
          /\ monPc' = "shutdown"
          /\ clean_shutdown'
          /\ shutdownCalled' = shutdownCalled
    /\ (monPc = "shutdown" /\ monPc' \notin {"shutdown", "killed"}) =>
          /\ monPc' = "recv"
          /\ clean_shutdown
          /\ shutdownCalled'
    /\ (shutdownCalled' /\ ~shutdownCalled) => monPc = "shutdown"
    /\ (clean_shutdown' /\ ~clean_shutdown) => monPc = "store"

\* C21: for each Stop or Preshutdown control the event monitor first
\* reports StopPending with a wait hint of 10s, then stores clean_shutdown =
\* true, then invokes the shutdown handle, and takes the next control only
\* after that; so the shutdown handle is never invoked while clean_shutdown
\* is false, and a main loop that returned Ok because of that call is
\* followed by a read of clean_shutdown = true and by exit code 0.
C21_StopOrder ==
    /\ [][MonitorStopStep]_svcVars
    /\ [](shutdownCalled => (clean_shutdown /\ ReportsOf("StopPending") # {}))
    /\ []((loopCause = "os_shutdown" /\ svcPc \in {"set_stopped", "returned", "exited"}) =>
             (cleanRead = <<TRUE>> /\ exit_code = "NO_ERROR"))

\* Two stop controls were handled in turn by the event monitor, the main
\* loop returned Ok after the shutdown handle was invoked, and Stopped was
\* reported with exit code 0.
C21_Witness ==
    /\ loopCause = "os_shutdown"
    /\ Cardinality(ReportsOf("StopPending")) = 2
    /\ monPc = "recv"
    /\ event_rx = <<>>
    /\ svcPc = "returned"
    /\ reports[Len(reports)].state = "Stopped"
    /\ reports[Len(reports)].exit_code = "NO_ERROR"

\* Is the delivered control one of Stop, Preshutdown, PowerEvent(_) and
\* SessionChange(_)?
IsForwardedKind(e) == e.control \in {"Stop", "Preshutdown", "PowerEvent", "SessionChange"}

\* The controls of those kinds among the delivered ones, in the order of
\* their delivery, each with its parameter.
ForwardedControls ==
    LET f == SelectSeq(handlerLog, IsForwardedKind)
    IN  [i \in 1..Len(f) |-> [control |-> f[i].control, param |-> f[i].param]]

\* C22: the control handler answers Interrogate with NoError and forwards
\* nothing; it forwards Stop, Preshutdown, every PowerEvent and every
\* SessionChange unchanged and answers NoError; it answers every other
\* control with NotImplemented and forwards nothing. The controls the event
\* monitor has handled, followed by those waiting in the channel, are the
\* forwarded controls in the order the handler received them.
C22_HandlerForwarding ==
    /\ \A i \in DOMAIN handlerLog :
          LET e == handlerLog[i]
          IN  /\ e.control = "Interrogate" => e.result = "NoError"
              /\ IsForwardedKind(e) => e.result = "NoError"
              /\ (e.control # "Interrogate" /\ ~IsForwardedKind(e)) =>
                    e.result = "NotImplemented"
    /\ handled \o event_rx = ForwardedControls

\* A suspend event, an Interrogate and a Stop were delivered in that order;
\* the monitor has handled the suspend event first and the Stop second.
C22_Witness ==
    /\ Len(handlerLog) = 3
    /\ handlerLog[1].control = "PowerEvent"
    /\ handlerLog[1].param = "Suspend"
    /\ handlerLog[2].control = "Interrogate"
    /\ handlerLog[3].control = "Stop"
    /\ handled = <<[control |-> "PowerEvent", param |-> "Suspend"],
                   [control |-> "Stop", param |-> "none"]>>

\* The states of a service.
ServiceStates ==
    {"StartPending", "StopPending", "PausePending", "ContinuePending", "Stopped",
     "Running", "Paused"}

\* C23: the accepted controls are empty for StartPending, StopPending,
\* PausePending, ContinuePending and Stopped, and POWER_EVENT |
\* SESSION_CHANGE | STOP | PRESHUTDOWN for Running and Paused; every status
\* handed to the OS carries the accepted controls of its state.
C23_AcceptedByState ==
    /\ \A state \in ServiceStates \ {"Running", "Paused"} : AcceptedControls(state) = {}
    /\ \A state \in {"Running", "Paused"} :
          AcceptedControls(state) = {"PowerEvent", "SessionChange", "Stop", "Preshutdown"}
    /\ \A i \in DOMAIN reports :
          /\ reports[i].state \in ServiceStates
          /\ reports[i].controls_accepted =
                IF reports[i].state \in {"Running", "Paused"}
                THEN {"PowerEvent", "SessionChange", "Stop", "Preshutdown"}
                ELSE {}

\* StartPending, Running, StopPending and Stopped were reported: the
\* controls are accepted in the second report only.
C23_Witness ==
    /\ Len(reports) = 4
    /\ reports[1].state = "StartPending"
    /\ reports[2].state = "Running"
    /\ reports[2].controls_accepted # {}
    /\ reports[3].state = "StopPending"
    /\ reports[3].controls_accepted = {}
    /\ reports[4].state = "Stopped"

\* The positions in hibLog of the events of a kind.
EventsOf(kind) == { i \in DOMAIN hibLog : hibLog[i].event = kind }

\* The position of the last event of a kind before position i, 0 if none.
LastBefore(kind, i) ==
    LET before == { j \in EventsOf(kind) : j < i }
    IN  IF before = {} THEN 0 ELSE CHOOSE j \in before : \A k \in before : k <= j

\* The suspend event at position s came strictly less than 5 seconds after
\* the most recent interactive-session logoff before it.
SuspendAfterLogoff(s) ==
    LET l == LastBefore("Logoff_Interactive", s)
    IN  /\ hibLog[s].event = "Suspend"
        /\ l # 0
        /\ hibLog[s].at - hibLog[l].at < 5

\* C24: restart_daemon is invoked on a resume event exactly when, since
\* the previous resume event (or since the start), some suspend event was
\* registered strictly less than 5 seconds after the most recent
\* interactive-session logoff before it; a logoff of a session that is not
\* interactive records no logoff time; a suspend event 5 seconds or more
\* after the logoff does not set the flag; and no other event invokes
\* restart_daemon. Times are those the detector reads from the clock.
C24_RestartIffHibernated ==
    /\ \A r \in EventsOf("Resume") :
          hibLog[r].restarted <=>
             \E s \in (LastBefore("Resume", r) + 1)..(r - 1) : SuspendAfterLogoff(s)
    /\ \A i \in DOMAIN hibLog \ EventsOf("Resume") : ~hibLog[i].restarted
    /\ restarts = Cardinality({ i \in DOMAIN hibLog : hibLog[i].restarted })
    /\ LET l == LastBefore("Logoff_Interactive", Len(hibLog) + 1)
       IN  logoff_time = IF l = 0 THEN <<>> ELSE <<hibLog[l].at>>
    /\ should_restart <=>
          \E s \in (LastBefore("Resume", Len(hibLog) + 1) + 1)..Len(hibLog) :
             SuspendAfterLogoff(s)

\* An interactive logoff, a suspend event 4 seconds later and a resume
\* event that restarted the daemon; then a suspend event 5 seconds after
\* the first one and a resume event that did not.
C24_Witness ==
    /\ Len(hibLog) = 5
    /\ hibLog[1].event = "Logoff_Interactive"
    /\ hibLog[2].event = "Suspend"
    /\ hibLog[2].at - hibLog[1].at = 4
    /\ hibLog[3].event = "Resume"
    /\ hibLog[3].restarted
    /\ hibLog[4].event = "Suspend"
    /\ hibLog[4].at - hibLog[2].at = 5
    /\ hibLog[5].event = "Resume"
    /\ ~hibLog[5].restarted
    /\ restarts = 1

\* C28 (as stated): a version that is printed and parsed back is the
\* version itself, whatever its components; and the texts with a -dev
\* suffix and the empty text parse to None.
C28_RoundTrip ==
    /\ fnOut.fn = "to_string" => fnOut.parsed = Some(fnIn.v)
    /\ (/\ fnOut.fn = "from_str"
        /\ fnIn.text \in {"2020.5-beta1-dev-f16be4", "2020.5-dev-f16be4", ""})
          => fnOut.parsed = <<>>

\* The texts the claim names as not being versions.
NotVersionTexts ==
    {"2020.5-beta1-dev-f16be4", "2020.5-dev-f16be4", "2020.15-beta1-dev-f16be4",
     "2020.15-dev-f16be4", ""}

\* C28 (amended): a version whose year has four digits (1000 to 9999) is
\* the version itself when it is printed and parsed back, whatever its
\* other components; the text of a version with any other year parses to
\* None; and the texts with a -dev suffix and the empty text parse to None.
C28_RoundTripFourDigitYear ==
    /\ fnOut.fn = "to_string" =>
          fnOut.parsed = IF fnIn.v.year >= 1000 /\ fnIn.v.year <= 9999
                         THEN Some(fnIn.v)
                         ELSE <<>>
    /\ (fnOut.fn = "from_str" /\ fnIn.text \in NotVersionTexts) => fnOut.parsed = <<>>

\* Beta(9999, 15, 3) was printed as "9999.15-beta3" and parsed back.
C28_Witness ==
    /\ fnOut.fn = "to_string"
    /\ fnIn.v = Beta(9999, 15, 3)
    /\ fnOut.text = "9999.15-beta3"
    /\ fnOut.parsed = Some(Beta(9999, 15, 3))

\* C29: cmp is a total order: a version equals itself and nothing else,
\* cmp(b, a) is the reverse of cmp(a, b), and the order is transitive; it
\* compares by year, then by version; for the same year and version a
\* stable version is greater than every beta, and two betas compare by
\* their beta number.
C29_TotalOrder ==
    fnOut.fn = "cmp" =>
        LET a == fnIn.a
            b == fnIn.b
            le(o) == o \in {"Less", "Equal"}
        IN  /\ fnOut.aa = "Equal"
            /\ fnOut.ab \in {"Less", "Equal", "Greater"}
            /\ (fnOut.ab = "Equal") <=> (a = b)
            /\ (fnOut.ab = "Less") <=> (fnOut.ba = "Greater")
            /\ (fnOut.ab = "Greater") <=> (fnOut.ba = "Less")
            /\ (le(fnOut.ab) /\ le(fnOut.bc)) => le(fnOut.ac)
            /\ (fnOut.ab = "Less" /\ le(fnOut.bc)) => fnOut.ac = "Less"
            /\ (le(fnOut.ab) /\ fnOut.bc = "Less") => fnOut.ac = "Less"
            /\ a.year < b.year => fnOut.ab = "Less"
            /\ (a.year = b.year /\ a.version < b.version) => fnOut.ab = "Less"
            /\ (a.year = b.year /\ a.version = b.version) =>
                  /\ (a.tag = "Stable" /\ b.tag = "Beta") => fnOut.ab = "Greater"
                  /\ (a.tag = "Beta" /\ b.tag = "Beta") =>
                        fnOut.ab = CmpU32(a.beta, b.beta)

\* Stable(2020,4) was compared with Beta(2020,4,99) and with Stable(2021,1),
\* and Beta(2020,4,99) with Stable(2021,1).
C29_Witness ==
    /\ fnOut.fn = "cmp"
    /\ fnIn.a = Stable(2020, 4)
    /\ fnIn.b = Beta(2020, 4, 99)
    /\ fnIn.c = Stable(2021, 1)
    /\ fnOut.ab = "Greater"
    /\ fnOut.bc = "Less"
    /\ fnOut.ac = "Less"

\* The parseable candidates of a call of suggested_upgrade: latest_stable
\* if present, latest_beta if show_beta.
Candidates(response, show_beta) ==
    LET stable == IF response.latest_stable # <<>>
                  THEN from_str(response.latest_stable[1])
                  ELSE <<>>
        beta == IF show_beta THEN from_str(response.latest_beta) ELSE <<>>
    IN  { stable[i] : i \in DOMAIN stable } \cup { beta[i] : i \in DOMAIN beta }

\* The greatest of a non-empty set of versions.
Greatest(vs) == CHOOSE m \in vs : \A v \in vs : cmp(v, m) \in {"Less", "Equal"}

\* What the claims say suggested_upgrade returns.
ExpectedSuggestion(current, response, show_beta) ==
    LET cands == Candidates(response, show_beta)
    IN  IF cands = {} THEN <<>>
        ELSE IF cmp(Greatest(cands), current) = "Greater"
        THEN Some(to_string(Greatest(cands)))
        ELSE <<>>

\* C30 (as stated): suggested_upgrade returns the text of the greatest
\* parseable candidate when it is greater than the current version, None
\* otherwise; the suggestion is always greater than the current version;
\* and it is never a beta when show_beta is false.
C30_NeverBetaUnlessShown ==
    fnOut.fn = "suggested_upgrade" =>
        /\ fnOut.suggestion =
              ExpectedSuggestion(fnIn.current, fnIn.response, fnIn.show_beta)
        /\ fnOut.suggestion # <<>> =>
              /\ from_str(fnOut.suggestion[1]) # <<>>
              /\ cmp(from_str(fnOut.suggestion[1])[1], fnIn.current) = "Greater"
              /\ ~fnIn.show_beta => from_str(fnOut.suggestion[1])[1].tag = "Stable"

\* C30 (amended): suggested_upgrade returns the text of the greatest
\* parseable candidate when it is greater than the current version, None
\* otherwise; the suggestion is always greater than the current version;
\* when show_beta is false the suggestion is never latest_beta but the
\* version latest_stable parses to, which is a beta when latest_stable is
\* itself the text of a beta.
C30_SuggestedUpgrade ==
    fnOut.fn = "suggested_upgrade" =>
        /\ fnOut.suggestion =
              ExpectedSuggestion(fnIn.current, fnIn.response, fnIn.show_beta)
        /\ fnOut.suggestion # <<>> =>
              /\ from_str(fnOut.suggestion[1]) # <<>>
              /\ cmp(from_str(fnOut.suggestion[1])[1], fnIn.current) = "Greater"
              /\ ~fnIn.show_beta =>
                    /\ fnIn.response.latest_stable # <<>>
                    /\ from_str(fnOut.suggestion[1]) =
                          from_str(fnIn.response.latest_stable[1])

\* show_beta is false, latest_stable is the text of a beta greater than
\* the current version, and that beta is suggested.
C30_Witness ==
    /\ fnOut.fn = "suggested_upgrade"
    /\ ~fnIn.show_beta
    /\ fnIn.current = Stable(2020, 4)
    /\ fnIn.response.latest_stable = Some("2020.5-beta3")
    /\ fnOut.suggestion = Some("2020.5-beta3")


\* The version of the build matches neither ^(\d{4})\.(\d+)$ nor
\* ^(\d{4})\.(\d+)-beta(\d+)$.
MatchesNeitherPattern(s) == StableCaptures(s) = <<>> /\ BetaCaptures(s) = <<>>

\* C25: in a development build, one whose version matches neither the
\* stable nor the beta pattern, run never starts a download of the version
\* info: it never enters the select loop, it only drains the control
\* channel and returns when the channel closes.
C25_DevBuildNeverDownloads ==
    MatchesNeitherPattern(build.version) =>
        /\ ~launched
        /\ version_check = NoDownload
        /\ updPc # "loop"

\* A step in which the updater handles the completion of a download and
\* does not return.
CompletionHandled ==
    /\ version_check.state = "ready"
    /\ version_check'.state = "terminated"
    /\ updPc' = "loop"

\* A step in which a download is started.
DownloadLaunched ==
    /\ version_check.state = "terminated"
    /\ version_check'.state = "downloading"

\* What C26 says of one step of the updater.
LaunchSpacingStep ==
    /\ CompletionHandled =>
          /\ next_update_time' = UPDATE_INTERVAL
          /\ check_delay' = <<UPDATE_CHECK_INTERVAL>>
          /\ sinceCompletion' = <<0>>
    /\ DownloadLaunched =>
          /\ check_delay = <<0>>
          /\ next_update_time < 0
          /\ sinceCompletion # <<>> => sinceCompletion[1] > UPDATE_INTERVAL

\* C26: when the updater handles the completion of a download at time t
\* and does not return, next_update_time becomes t + UPDATE_INTERVAL and the
\* timer of UPDATE_CHECK_INTERVAL is set again; a download is started only
\* by a timer wakeup that sees a time strictly after next_update_time, so a
\* download starts more than UPDATE_INTERVAL after the previous one
\* completed.
C26_LaunchSpacing == [][LaunchSpacingStep]_updVars

\* A second download is in flight, started more than UPDATE_INTERVAL after
\* the first one completed.
C26_Witness ==
    /\ version_check.state = "downloading"
    /\ sinceCompletion # <<>>
    /\ sinceCompletion[1] > UPDATE_INTERVAL
    /\ next_update_time < 0

\* C27: from every state of the updater loop, once the control channel is
\* closed the updater eventually returns, and once the event sender of the
\* daemon is closed the updater eventually returns, also while a download
\* is in flight that keeps failing and is retried every
\* UPDATE_INTERVAL_ERROR.
C27_ClosedLeadsToExit ==
    (updPc = "loop" /\ (~tx_open \/ update_sender_closed)) ~> (updPc = "returned")

\* version-info.json holds a CachedAppVersionInfo of the running version.
CacheIsCurrent ==
    /\ cache_file # <<>>
    /\ cache_file # <<Unparsable>>
    /\ cache_file[1].cached_from_version = build.version

\* The defaults C31 names, with supported true exactly for a development
\* build.
SafeDefaults ==
    [supported |-> MatchesNeitherPattern(build.version),
     latest_stable |-> build.version,
     latest_beta |-> build.version,
     suggested_upgrade |-> <<>>]

\* A step that writes a CachedAppVersionInfo stamps it with the version of
\* the build.
WriteStampsVersion ==
    (cache_file' # cache_file /\ cache_file' # <<>> /\ cache_file' # <<Unparsable>>)
        => cache_file'[1].cached_from_version = build.version

\* C31: load_cache returns the cached info only when the file parses and
\* its cached_from_version is the version of the build; otherwise it
\* returns the defaults, with nothing of the file: latest_stable and
\* latest_beta the version of the build, no suggested upgrade, and supported
\* exactly for a development build.  A cache that write_cache wrote carries
\* the version of the build.
C31_LoadCache ==
    /\ [](updPc = "start" =>
            last_app_version_info =
                IF CacheIsCurrent THEN cache_file[1].version_info ELSE SafeDefaults)
    /\ [][WriteStampsVersion]_updVars

\* The closed snapshots the child watcher has taken: the one it holds and
\* the ones it has sent.
ClosedSnapshots ==
    (IF cwLocal.tag = "Child" THEN {cwLocal.closed} ELSE {})
    \cup {rx[i].closed : i \in {j \in 1..Len(rx) : rx[j].tag = "Child"}}

\* C32 (as stated): the closed flag is true if and only if the user has
\* closed the tunnel through a close handle, and a closed snapshot of the
\* child watcher is true only when the user has closed the tunnel.
C32_ClosedIffUserClosed ==
    /\ closed <=> closeCalls["user"] >= 1
    /\ TRUE \in ClosedSnapshots => closeCalls["user"] >= 1

\* C32 (amended): the closed flag is true if and only if close() has been
\* called on some close handle, by the user, by the IPC watcher of
\* inner_wait_tunnel or by the proxy thread of wait; a closed snapshot of the
\* child watcher is true only after such a call, and without a close by the
\* user only after the event dispatcher result was sent or the proxy result
\* was sent.
C32_ClosedIffSomeClose ==
    /\ closed <=> \E c \in Callers : closeCalls[c] >= 1
    /\ TRUE \in ClosedSnapshots => closed
    /\ (TRUE \in ClosedSnapshots /\ closeCalls["user"] = 0) =>
          \/ \E i \in 1..Len(rx) : rx[i].tag = "EventDispatcher"
          \/ closeCalls["proxy"] >= 1

\* The user never closed the tunnel, the event server ended, the IPC watcher
\* closed the child, and the child watcher sent a closed snapshot of TRUE.
C32_Witness ==
    /\ closeCalls["user"] = 0
    /\ closeCalls["ipc"] = 1
    /\ closed
    /\ \E i \in 1..Len(rx) : rx[i].tag = "Child" /\ rx[i].closed

\* The second cancellation of the teardown changes nothing: the abort
\* trigger fired for a server task that is done, close() on a child that has
\* exited.
SecondCancelIsNoOp ==
    /\ (cw = "trigger" /\ cw' = "done" /\ server \in ServerDone) => server' = server
    /\ (iw = "close" /\ iw' = "done" /\ child \in ExitStatuses) => child' = child

\* C33: in inner_wait_tunnel, once the child has exited the abort trigger is
\* fired and the event server task completes; once the event server task
\* has completed close() is called on the child and the child exits, given
\* that kill makes it exit; so wait_tunnel returns whenever the child exits
\* or the event server task ends, and the second cancellation is a no-op.
C33_TeardownTerminates ==
    /\ (wt = "recv" /\ child \in ExitStatuses)
          ~> (abortTriggered /\ server \in ServerDone)
    /\ (wt = "recv" /\ server \in ServerDone)
          ~> (closeCalls["ipc"] = 1 /\ child \in ExitStatuses)
    /\ (wt = "recv" /\ (child \in ExitStatuses \/ server \in ServerDone))
          ~> (wt = "done")
    /\ [][SecondCancelIsNoOp]_positions

\* wait_tunnel has returned after the event server task ended first with a
\* transport error: the IPC watcher closed the child, the child exited, and
\* the abort trigger of the child watcher found the server task done.
C33_Witness ==
    /\ wt = "done"
    /\ server = "err_tonic"
    /\ rx[1].tag = "EventDispatcher"
    /\ closeCalls["ipc"] = 1
    /\ closeCalls["user"] = 0
    /\ child \in ExitStatuses
    /\ abortTriggered

\* version-info.json holds a CachedAppVersionInfo.
CacheParses == cache_file # <<>> /\ cache_file # <<Unparsable>>

\* What C34 says of a step that handles the completion of a download.
PublishFirstStep ==
    (version_check.state = "ready" /\ version_check'.state = "terminated") =>
        /\ last_app_version_info' # last_app_version_info =>
              last_app_version_info' \in published'
        /\ cache_file' # cache_file =>
              /\ last_app_version_info' \in published'
              /\ cache_file' \in {<<Unparsable>>,
                                  Some(CachedAppVersionInfo(last_app_version_info'))}
        /\ updPc' = "returned" =>
              /\ published' = published
              /\ last_app_version_info' = last_app_version_info
              /\ cache_file' = cache_file
        /\ updPc' = "loop" =>
              /\ published' # {}
              /\ last_app_version_info' \in published'
              /\ check_delay' = <<UPDATE_CHECK_INTERVAL>>

\* C34: on a download that succeeded the updater sends the new info to the
\* daemon before it keeps it and writes the cache; when the send fails the
\* updater returns with last_app_version_info and the cache as they were; a
\* failed write of the cache leaves the loop running with the timer set
\* again.  The cache never holds an info that was not sent to the daemon.
C34_PublishBeforeCache ==
    /\ [][PublishFirstStep]_updVars
    /\ [](CacheParses => cache_file[1].version_info \in published)

\* The updater sent two infos; the write of the second one failed at
\* File::create, so the cache holds the first and the loop goes on with the
\* timer set.
C34_Witness ==
    /\ updPc = "loop"
    /\ Cardinality(published) = 2
    /\ CacheParses
    /\ cache_file[1].version_info # last_app_version_info
    /\ check_delay # <<>>

\* The timer of UPDATE_CHECK_INTERVAL is set and has not been handled.
TimerArmed == check_delay # <<>>

\* The download future has been created and has not completed.
DownloadInFlight == version_check.state # "terminated"

\* C35: while the updater loop runs, exactly one of the two holds in every
\* state: the timer is armed, or a download is in flight.  So there is at
\* most one download, the timer does not fire during a download, and the
\* loop never has neither of them pending.
C35_TimerXorDownload ==
    updPc = "loop" => (TimerArmed <=> ~DownloadInFlight)

\* The loop runs with the control channel open, the download waits for its
\* retry and the timer is not armed.
C35_Witness ==
    /\ updPc = "loop"
    /\ tx_open
    /\ version_check.state = "backoff"
    /\ ~TimerArmed

\* What C36 says of one step of inner_wait_tunnel.
SendBeforeCancelStep ==
    /\ (~abortTriggered /\ abortTriggered') => "Child" \in Tags(rx)
    /\ closeCalls'["ipc"] > closeCalls["ipc"] => "EventDispatcher" \in Tags(rx)
    /\ (rx = <<>> /\ rx' # <<>> /\ rx'[1].tag = "EventDispatcher") =>
          /\ ~abortTriggered
          /\ server # "done_ok"
    /\ (rx = <<>> /\ rx' # <<>> /\ rx'[1].tag = "Child") => closeCalls["ipc"] = 0

\* C36: the child watcher sends its result before it fires the abort
\* trigger, and the IPC watcher sends its result before it calls close() on
\* the child.  So an end of the event server caused by the abort of the
\* child watcher is never the first result, and an exit of the child caused
\* by the close() of the IPC watcher is never the first result.
C36_SendBeforeCancel == [][SendBeforeCancelStep]_<<rx, abortTriggered, closeCalls>>

\* Both results were sent: first the child's, then the one of the event
\* server that the abort of the child watcher ended.
C36_Witness ==
    /\ Len(rx) = 2
    /\ rx[1].tag = "Child"
    /\ rx[2].tag = "EventDispatcher"
    /\ server = "done_ok"
    /\ abortTriggered

\* The entry an API call adds to `returned` in this step.
Returning == returned'[Len(returned')]

\* What C37 says of one step of the route manager.
ReplyResultStep ==
    /\ (Len(returned') = Len(returned) + 1 /\ Returning.op \in ReplyOps) =>
          /\ Returning.res = "PlatformError" <=> (apiPc = "blocked" /\ reply = "err")
          /\ (apiPc = "blocked" /\ reply = "ok") => Returning.res = "Ok"
    /\ (Len(returned') = Len(returned) + 1 /\ Returning.op \in SilentOps) =>
          /\ apiPc = "idle" /\ apiPc' = "idle"
          /\ reply' = reply
          /\ Returning.res \in {"Ok", "RouteManagerDown"}
          /\ Returning.res = "Ok" <=>
                /\ manage_tx
                /\ queue' = Append(queue, [cmd |-> CommandOf(Returning.op),
                                           id |-> Returning.id, routes |-> {}])
    /\ (Len(processed') = Len(processed) + 1
           /\ processed'[Len(processed')].cmd \in {"ClearRoutes", "DisableExclusionsRoutes"})
          => reply' = reply

\* C37: on a live manager add_routes, enable_exclusions_routes and
\* route_exclusions_dns return PlatformError exactly when the actor replied
\* with an error and Ok when it replied Ok; clear_routes and
\* disable_exclusions_routes return Ok as soon as their command is queued,
\* have no reply channel and never return a platform error.
C37_ReplyChannelResults == [][ReplyResultStep]_routeVars

\* add_routes returned the error of the platform, and clear_routes returned
\* Ok while its command was still queued.
C37_Witness ==
    /\ \E i \in DOMAIN returned :
          returned[i].op = "add_routes" /\ returned[i].res = "PlatformError"
    /\ Len(returned) >= 1
    /\ returned[Len(returned)].op = "clear_routes"
    /\ returned[Len(returned)].res = "Ok"
    /\ \E k \in DOMAIN queue : queue[k].id = returned[Len(returned)].id

\* C38: within one run_service, Stopped is reported exactly once and is
\* the last status reported: after the main thread reported Stopped, no
\* clone of PersistentServiceStatus, the one of the event monitor thread
\* included, reports StopPending or any other state.
C38_StoppedIsLast ==
    /\ Cardinality(ReportsOf("Stopped")) <= 1
    /\ \A i \in ReportsOf("Stopped") : i = Len(reports)

\* The suspend events the detector flagged: less than 5 seconds after the
\* last interactive logoff.
FlaggedSuspends == { s \in EventsOf("Suspend") : SuspendAfterLogoff(s) }

\* C39: one flagged suspend causes at most one restart.  register_resume
\* clears should_restart before it invokes the restart, so a resume event
\* that follows a resume event with no suspend event in between invokes no
\* restart, and the flag is clear after every resume event, also when the
\* restart helper could not be started.
C39_AtMostOneRestart ==
    /\ \A r \in EventsOf("Resume") :
          (LastBefore("Resume", r) # 0
             /\ EventsOf("Suspend") \cap (LastBefore("Resume", r)..r) = {})
          => ~hibLog[r].restarted
    /\ restarts <= Cardinality(FlaggedSuspends)
    /\ helpers <= restarts
    /\ \A i \in DOMAIN hibLog : hibLog[i].started => hibLog[i].restarted
    /\ (hibLog # <<>> /\ hibLog[Len(hibLog)].event = "Resume") => ~should_restart

\* A flagged suspend, a resume event whose restart helper could not be
\* started, and a second resume event that invoked no restart.
C39_Witness ==
    /\ Len(hibLog) = 4
    /\ hibLog[2].event = "Suspend"
    /\ SuspendAfterLogoff(2)
    /\ hibLog[3].event = "Resume"
    /\ hibLog[3].restarted
    /\ ~hibLog[3].started
    /\ hibLog[4].event = "Resume"
    /\ ~hibLog[4].restarted
    /\ ~should_restart
    /\ restarts = 1
    /\ helpers = 0

====
